---- MODULE Spec2Model ----
(***************************************************************************)
(* A model of the futures_flipper_gui trading engine: TradingEngine's      *)
(* lifecycle (start / stop / panic_stop and the tick loop thread), the     *)
(* startup reconciliation (sync_exchange_state and the rebuild of the      *)
(* position map), and the tick handler with its candidate selection,      *)
(* sizing, entry and exit steps.                                           *)
(*                                                                         *)
(* Units.  Prices are integers.  Percentages are kept in hundredths of a  *)
(* percent (0.10 % = 10), so  entry * (1 + pct / 100.0)  is the integer   *)
(* entry * (PctScale + pct)  in units of 1/PctScale of a price; tp_price   *)
(* and sl_price are stored in that unit.  Quantities are integers in       *)
(* thousandths (QtyScale).  Times are seconds.                             *)
(***************************************************************************)
EXTENDS Integers, Sequences, FiniteSets, TLC

(***************************************************************************)
(* Bounds of the model.                                                    *)
(***************************************************************************)
MaxThreads == 2
MaxTicks == 2
MaxRetry == 2
MaxEvals == 3
MaxList == 3
MaxSweepTicks == 3

(***************************************************************************)
(* Program constants.                                                      *)
(***************************************************************************)
StaleCheckPeriod == 30
DefaultInterval == 5
DefaultStaleTtl == 300
DefaultMaxDuration == 45
DefaultMinFillPct == 80
PaperBalance == 100

PctScale == 100 * 100
QtyScale == 10 * 100

SymbolOrder == <<"A", "B">>
ThreadIds == 1..MaxThreads
Callers == {"action_thread", "gui_thread"}

VARIABLES
  thread,               \* TradingEngine._thread: 0 is None, else a loop thread id
  stop_event,           \* TradingEngine._stop_event
  loop_pc,              \* per loop thread: where _run_loop is
  positions,            \* TradingEngine._positions: symbol -> PositionState
  round_robin_index,    \* TradingEngine._round_robin_index
  last_stale_check_ts,  \* TradingEngine._last_stale_check_ts
  now,                  \* time.time()
  ticks,                \* number of loop iterations begun (bounded)
  settings,             \* the settings table and the api_keys row
  pairs,                \* the pairs table: symbol -> row
  exchange,             \* the open orders and positions the account holds
  db_positions,         \* the positions table: symbol -> row
  db_orders,            \* the orders table, in id order
  db_trades,            \* the trades table, in id order
  cpc,                  \* per caller: where it is in start / stop / panic_stop
  cop,                  \* per caller: the engine method it is running
  cjoin,                \* per caller: stop()'s local `thread`
  cpaper,               \* per caller: panic_stop()'s local `paper_mode`
  ex_calls,             \* order-mutating calls received by the exchange
  last_sync,            \* what the last _safe_state_sync received
  last_tick,            \* what the last tick did
  last_call             \* the arguments and the outcome of the last call observed

vars == <<thread, stop_event, loop_pc, positions, round_robin_index,
          last_stale_check_ts, now, ticks, settings, pairs, exchange,
          db_positions, db_orders, db_trades, cpc, cop, cjoin, cpaper, ex_calls, last_sync,
          last_tick, last_call>>

engine_vars == <<thread, stop_event, loop_pc, positions, round_robin_index,
                 last_stale_check_ts>>
config_vars == <<settings, pairs, exchange>>
store_vars == <<config_vars, db_positions, db_orders, db_trades>>
caller_vars == <<cpc, cop, cjoin, cpaper>>

(***************************************************************************)
(* Generic helpers.                                                        *)
(***************************************************************************)
Max(a, b) == IF a >= b THEN a ELSE b
Min(a, b) == IF a <= b THEN a ELSE b
Abs(a) == IF a < 0 THEN -a ELSE a

Put(f, k, v) == [x \in (DOMAIN f) \cup {k} |-> IF x = k THEN v ELSE f[x]]
Drop(f, k) == [x \in (DOMAIN f) \ {k} |-> f[x]]
SeqRange(q) == {q[i] : i \in 1..Len(q)}

\* No call observed yet.
NoCall == [op |-> "none"]

EmptyMap == [x \in {} |-> 0]

(***************************************************************************)
(* The settings table.  Values are the strings the store holds; the        *)
(* parsers below turn them into numbers the way the code does.             *)
(***************************************************************************)
\* float(value) of the strings that occur, in hundredths; "inf" parses to an
\* infinite float; every other string raises ValueError.
NumberStrings ==
  ("0" :> 0) @@ ("1" :> 100) @@ ("2" :> 200) @@ ("3" :> 300) @@ ("5" :> 500)
  @@ ("10" :> 1000) @@ ("15" :> 1500) @@ ("20" :> 2000) @@ ("30" :> 3000)
  @@ ("45" :> 4500) @@ ("80" :> 8000) @@ ("200" :> 20000) @@ ("300" :> 30000)
  @@ ("0.10" :> 10) @@ ("0.02" :> 2) @@ ("-5" :> 0 - 500)

FloatOf(s) ==
  IF s \in DOMAIN NumberStrings THEN [kind |-> "num", x100 |-> NumberStrings[s]]
  ELSE IF s = "inf" THEN [kind |-> "inf", x100 |-> 0]
  ELSE [kind |-> "bad", x100 |-> 0]

\* Storage.get_setting: the row's value, or the default when there is no row.
get_setting(key, default) ==
  IF key \in DOMAIN settings.table THEN settings.table[key] ELSE default

\* TradingEngine._setting_bool
SettingBool(key, default) ==
  get_setting(key, IF default THEN "1" ELSE "0") \in {"1", "true", "yes", "on"}

\* TradingEngine._setting_int: int(float(value)) with only ValueError caught,
\* so an infinite value raises OverflowError out of the call.
SettingInt(key, default, minimum) ==
  LET raw == get_setting(key, "")
      f == FloatOf(raw)
  IN IF raw = "" \/ f.kind = "bad" THEN [raised |-> FALSE, val |-> Max(minimum, default)]
     ELSE IF f.kind = "inf" THEN [raised |-> TRUE, val |-> 0]
     ELSE [raised |-> FALSE, val |-> Max(minimum, f.x100 \div 100)]

\* exits._as_float / executor._as_float on a settings string, in hundredths:
\* float(value), the default on ValueError.  (An infinite value is not among
\* the execution settings the model is run with.)
AsFloat(value, default_x100) ==
  LET f == FloatOf(value)
  IN IF f.kind = "num" THEN f.x100 ELSE default_x100

\* exits._as_int / executor._as_int: int(float(value)), the default on ValueError.
AsInt(value, default) ==
  LET f == FloatOf(value)
  IN IF f.kind = "num" THEN f.x100 \div 100 ELSE default

\* exits._as_bool / executor._as_bool on a settings string.
AsBool(value) == value \in {"1", "true", "yes", "on"}

\* storage.DEFAULT_SETTINGS: the rows the engine reads.
DefaultTable ==
  ("check_interval_sec" :> "5") @@ ("max_concurrent_positions" :> "1")
  @@ ("max_trade_duration_sec" :> "45") @@ ("break_even_enabled" :> "1")
  @@ ("break_even_trigger_pct" :> "0.10") @@ ("break_even_offset_pct" :> "0.02")
  @@ ("sizing_mode" :> "percent") @@ ("sizing_percent" :> "10")
  @@ ("sizing_fixed_usdt" :> "20") @@ ("sizing_reserve_usdt" :> "10")
  @@ ("max_margin_per_trade_usdt" :> "200") @@ ("entry_order_type" :> "market")
  @@ ("exit_order_type" :> "market") @@ ("limit_offset_bps" :> "2")
  @@ ("entry_timeout_sec" :> "30") @@ ("entry_retry_count" :> "0")
  @@ ("allow_market_fallback" :> "0") @@ ("min_fill_pct" :> "80")
  @@ ("trade_only_zero_fee" :> "0") @@ ("selection_mode" :> "best_score")
  @@ ("random_top_k" :> "3") @@ ("stale_order_ttl_sec" :> "300")
  @@ ("paper_mode" :> "1")

With(table, key, value) == [table EXCEPT ![key] = value]

\* The settings the model is run with: the defaults, and the defaults with
\* one or two rows changed.
Keyed(table) == [api_keys |-> TRUE, table |-> table]
SettingsDefault == Keyed(DefaultTable)
SettingsNoKeys == [api_keys |-> FALSE, table |-> DefaultTable]
SettingsInfInterval == Keyed(With(DefaultTable, "check_interval_sec", "inf"))
SettingsAll == Keyed(With(DefaultTable, "max_concurrent_positions", "ALL"))
SettingsRoundRobin == Keyed(With(DefaultTable, "selection_mode", "round_robin"))
SettingsRandom == Keyed(With(DefaultTable, "selection_mode", "random_top_k"))
SettingsZeroFee == Keyed(With(DefaultTable, "trade_only_zero_fee", "1"))
LiveTable == With(DefaultTable, "paper_mode", "0")
SettingsLiveAnyFill == Keyed(With(LiveTable, "min_fill_pct", "0"))
SettingsLiveLimit ==
  Keyed(With(With(LiveTable, "exit_order_type", "limit"), "entry_order_type", "limit"))

\* The pairs table (Storage.list_pairs, ORDER BY symbol).  Symbols are as
\* pairs_tab._normalize_symbol stores them: stripped and upper-cased.
PairRow(enabled) == [leverage |-> 1, tp_pct |-> 5000, sl_pct |-> 5000, enabled |-> enabled]
PairsBoth == ("A" :> PairRow(1)) @@ ("B" :> PairRow(1))
PairsOne == ("A" :> PairRow(1)) @@ ("B" :> PairRow(0))
PairsNone == ("A" :> PairRow(0)) @@ ("B" :> PairRow(0))

\* The zero_fee_symbols table (Storage.list_zero_fee_symbols).
ZeroFeeSymbols == {"A"}

(***************************************************************************)
(* The exchange, as the engine sees it: the open orders and positions the  *)
(* account holds, which a fetch returns, or fails to return.               *)
(***************************************************************************)
NoTs == [kind |-> "none", sec |-> 0]
\* ccxt timestamps are milliseconds; sec is the time they denote.
MsTs(sec) == [kind |-> "ms", sec |-> sec]

ExOrder(id, symbol, type, reduceOnly, ts) ==
  [id |-> id, symbol |-> symbol, type |-> type, status |-> "open",
   reduceOnly |-> reduceOnly, stopPrice |-> (type = "stop"), timestamp |-> ts]

\* An old resting reduce-only limit order, a fresh stop order, an order
\* without an id.
OrderOld == ExOrder("o1", "A", "limit", TRUE, MsTs(0 - DefaultStaleTtl))
OrderNew == ExOrder("o2", "A", "stop", TRUE, MsTs(StaleCheckPeriod))
OrderNoId == ExOrder("", "B", "limit", FALSE, NoTs)

ExPos(symbol, contracts, entryPrice) ==
  [symbol |-> symbol, contracts |-> contracts, side |-> "", entryPrice |-> entryPrice]

\* The accounts the engine is run against: one that holds nothing, and one
\* that holds orders and positions left by earlier sessions (a short
\* position, a position reported without an entry price, a closed-out
\* position reported with no contracts).
AccountEmpty == [orders |-> <<>>, positions |-> <<>>]
AccountBusy ==
  [orders |-> <<OrderOld, OrderNew, OrderNoId>>,
   positions |-> <<ExPos("A", 0 - 4 * QtyScale, 2), ExPos("B", 4 * QtyScale, 0),
                   ExPos("C", 0, 2)>>]

\* An account that holds resting orders and no position.
AccountOrders == [orders |-> <<OrderOld, OrderNew, OrderNoId>>, positions |-> <<>>]

\* fetch_open_orders: the account's open orders, or an exception.
OrderFetches ==
  {[ok |-> "fail", list |-> <<>>], [ok |-> "ok", list |-> exchange.orders]}

\* fetch_positions: the account's positions, an exception, or
\* NotImplementedError.
PositionFetches ==
  {[ok |-> "fail", list |-> <<>>], [ok |-> "unsupported", list |-> <<>>],
   [ok |-> "ok", list |-> exchange.positions]}

(***************************************************************************)
(* Storage: the orders and positions tables.                               *)
(***************************************************************************)
OrderRow(symbol, kind, order_id, status, reduce_only, stop_price) ==
  [symbol |-> symbol, kind |-> kind, order_id |-> order_id, status |-> status,
   reduce_only |-> reduce_only, stop_price |-> stop_price]

\* Storage.insert_order: a plain INSERT, the row gets the next id.
insert_order(orders, row) == Append(orders, row)

IsOpenRow(r) == r.status \notin {"closed", "canceled"}

Reverse(s) == [i \in 1..Len(s) |-> s[Len(s) + 1 - i]]

\* Storage.list_open_orders: ORDER BY id DESC.
list_open_orders(orders) == Reverse(SelectSeq(orders, IsOpenRow))

\* Storage.delete_open_orders_not_in
delete_open_orders_not_in(orders, order_ids) ==
  LET KeepAll(r) == ~IsOpenRow(r)
      Keep(r) == ~(IsOpenRow(r) /\ r.order_id \notin order_ids)
  IN IF order_ids = {} THEN SelectSeq(orders, KeepAll) ELSE SelectSeq(orders, Keep)

PositionRow(side, amount, entry_price) ==
  [side |-> side, amount |-> amount, entry_price |-> entry_price]

\* Storage.upsert_position: INSERT ... ON CONFLICT(symbol) DO UPDATE.
upsert_position(tbl, symbol, row) == Put(tbl, symbol, row)

\* Storage.delete_positions_not_in
delete_positions_not_in(tbl, symbols) ==
  IF symbols = {} THEN EmptyMap
  ELSE [x \in (DOMAIN tbl) \cap symbols |-> tbl[x]]

(***************************************************************************)
(* state_sync.sync_exchange_state                                          *)
(***************************************************************************)
\* Lines 11-24: a failed (or unsupported) fetch is replaced by an empty list.
FetchedList(fetch) == IF fetch.ok = "ok" THEN fetch.list ELSE <<>>

HasId(o) == o.id # ""

\* Lines 26-42: one insert_order per exchange order that has an id.
SyncOrderRow(o) ==
  OrderRow(o.symbol, IF o.type = "" THEN "unknown" ELSE o.type, o.id,
           IF o.status = "" THEN "open" ELSE o.status, o.reduceOnly, o.stopPrice)

RECURSIVE SyncInsertOrders(_, _)
SyncInsertOrders(orders, list) ==
  IF list = <<>> THEN orders
  ELSE SyncInsertOrders(
         IF HasId(Head(list)) THEN insert_order(orders, SyncOrderRow(Head(list)))
         ELSE orders,
         Tail(list))

SyncedOrderIds(list) == {list[i].id : i \in {j \in 1..Len(list) : HasId(list[j])}}

\* Lines 47-71: one upsert_position per exchange position with a symbol and
\* a non-zero size.
IsSyncedPos(p) == p.symbol # "" /\ p.contracts # 0

SyncPositionRow(p) ==
  PositionRow(IF p.side # "" THEN p.side
              ELSE IF p.contracts > 0 THEN "long" ELSE "short",
              Abs(p.contracts), p.entryPrice)

RECURSIVE SyncUpsertPositions(_, _)
SyncUpsertPositions(tbl, list) ==
  IF list = <<>> THEN tbl
  ELSE SyncUpsertPositions(
         IF IsSyncedPos(Head(list))
         THEN upsert_position(tbl, Head(list).symbol, SyncPositionRow(Head(list)))
         ELSE tbl,
         Tail(list))

SyncedSymbols(list) ==
  {list[i].symbol : i \in {j \in 1..Len(list) : IsSyncedPos(list[j])}}

\* The whole function: the tables after the sync.
sync_exchange_state(orders, tbl, fo, fp) ==
  LET open_orders == FetchedList(fo)
      ex_positions == FetchedList(fp)
  IN [orders |-> delete_open_orders_not_in(SyncInsertOrders(orders, open_orders),
                                           SyncedOrderIds(open_orders)),
      positions |-> delete_positions_not_in(SyncUpsertPositions(tbl, ex_positions),
                                            SyncedSymbols(ex_positions))]

\* TradingEngine._build_client: None without an api_keys row.
HasClient == settings.api_keys

\* TradingEngine._safe_state_sync
safe_state_sync(orders, tbl, fo, fp) ==
  IF ~HasClient THEN [orders |-> orders, positions |-> tbl]
  ELSE sync_exchange_state(orders, tbl, fo, fp)

(***************************************************************************)
(* exits.py: PositionState, compute_tp_sl, evaluate_exit, configure_exits, *)
(* close_position.                                                         *)
(***************************************************************************)
\* Targets computed for the opposite side.
compute_tp_sl_opposite(entry_price, side, tp_pct, sl_pct) ==
  IF side = "buy"
  THEN [tp |-> entry_price * (PctScale - tp_pct), sl |-> entry_price * (PctScale + sl_pct)]
  ELSE [tp |-> entry_price * (PctScale + tp_pct), sl |-> entry_price * (PctScale - sl_pct)]

\* exits.compute_tp_sl, percentages in hundredths of a percent, the result
\* in units of 1/PctScale.
compute_tp_sl(entry_price, side, tp_pct, sl_pct) ==
  IF side = "buy"
  THEN [tp |-> entry_price * (PctScale + tp_pct), sl |-> entry_price * (PctScale - sl_pct)]
  ELSE [tp |-> entry_price * (PctScale - tp_pct), sl |-> entry_price * (PctScale + sl_pct)]

\* PositionState(...) as the engine constructs it: break_even_moved False,
\* initial_sl_price the computed stop; "" is None for the order ids.
PositionState(symbol, side, amount, entry_price, opened_ts, tpsl, tp_id, sl_id) ==
  [symbol |-> symbol, side |-> side, amount |-> amount, entry_price |-> entry_price,
   opened_ts |-> opened_ts, tp_price |-> tpsl.tp, sl_price |-> tpsl.sl,
   initial_sl_price |-> tpsl.sl, break_even_moved |-> FALSE,
   tp_order_id |-> tp_id, sl_order_id |-> sl_id]

\* TradingEngine._execution_settings: get_setting(k, "") or "".
ExecSetting(key) == get_setting(key, "")

ExitDecision(should_close, reason, exit_price, moved) ==
  [should_close |-> should_close, reason |-> reason, exit_price |-> exit_price,
   break_even_moved |-> moved]

BreakEvenTriggered(position, last_price) ==
  LET trigger_pct == AsFloat(ExecSetting("break_even_trigger_pct"), 10)
  IN IF position.side = "buy"
     THEN last_price * PctScale >= position.entry_price * (PctScale + trigger_pct)
     ELSE last_price * PctScale <= position.entry_price * (PctScale - trigger_pct)

BreakEvenStop(position) ==
  LET offset_pct == AsFloat(ExecSetting("break_even_offset_pct"), 2)
  IN IF position.side = "buy"
     THEN position.entry_price * (PctScale + offset_pct)
     ELSE position.entry_price * (PctScale - offset_pct)

\* Terminal conditions that look at the clock before the price.
TerminalDecisionTimeFirst(position, last_price, now_ts) ==
  IF now_ts - position.opened_ts
       >= AsInt(ExecSetting("max_trade_duration_sec"), DefaultMaxDuration)
  THEN ExitDecision(TRUE, "time_stop", last_price, FALSE)
  ELSE ExitDecision(FALSE, "", 0, FALSE)

\* Terminal conditions without the time stop of lines 117-118.
TerminalDecisionUntimed(position, last_price, now_ts) ==
  LET tp_touch == IF position.side = "buy"
                  THEN last_price * PctScale >= position.tp_price
                  ELSE last_price * PctScale <= position.tp_price
      sl_touch == IF position.side = "buy"
                  THEN last_price * PctScale <= position.sl_price
                  ELSE last_price * PctScale >= position.sl_price
  IN IF tp_touch THEN ExitDecision(TRUE, "tp_hit", last_price, FALSE)
     ELSE IF sl_touch THEN ExitDecision(TRUE, "sl_hit", last_price, FALSE)
     ELSE ExitDecision(FALSE, "", 0, FALSE)

\* Lines 106-120: the terminal conditions.
TerminalDecision(position, last_price, now_ts) ==
  LET max_duration == AsInt(ExecSetting("max_trade_duration_sec"), DefaultMaxDuration)
      tp_touch == IF position.side = "buy"
                  THEN last_price * PctScale >= position.tp_price
                  ELSE last_price * PctScale <= position.tp_price
      sl_touch == IF position.side = "buy"
                  THEN last_price * PctScale <= position.sl_price
                  ELSE last_price * PctScale >= position.sl_price
  IN IF tp_touch THEN ExitDecision(TRUE, "tp_hit", last_price, FALSE)
     ELSE IF sl_touch THEN ExitDecision(TRUE, "sl_hit", last_price, FALSE)
     ELSE IF now_ts - position.opened_ts >= max_duration
          THEN ExitDecision(TRUE, "time_stop", last_price, FALSE)
     ELSE ExitDecision(FALSE, "", 0, FALSE)

\* An evaluation that does not look at position.break_even_moved.
evaluate_exit_unlatched(position, last_price, now_ts) ==
  IF AsBool(ExecSetting("break_even_enabled")) /\ BreakEvenTriggered(position, last_price)
  THEN [position |-> [position EXCEPT !.sl_price = BreakEvenStop(position),
                                      !.break_even_moved = TRUE],
        decision |-> ExitDecision(FALSE, "break_even_moved", 0, TRUE)]
  ELSE [position |-> position, decision |-> TerminalDecision(position, last_price, now_ts)]

\* An evaluation that tries the terminal conditions before the break-even.
evaluate_exit_terminal_first(position, last_price, now_ts) ==
  IF TerminalDecision(position, last_price, now_ts).should_close
  THEN [position |-> position, decision |-> TerminalDecision(position, last_price, now_ts)]
  ELSE evaluate_exit_unlatched(position, last_price, now_ts)

\* exits.evaluate_exit: the decision and the position as it leaves the call
\* (the break-even move mutates it in place).
evaluate_exit(position, last_price, now_ts) ==
  IF AsBool(ExecSetting("break_even_enabled")) /\ ~position.break_even_moved
     /\ BreakEvenTriggered(position, last_price)
  THEN [position |-> [position EXCEPT !.sl_price = BreakEvenStop(position),
                                      !.break_even_moved = TRUE],
        decision |-> ExitDecision(FALSE, "break_even_moved", 0, TRUE)]
  ELSE [position |-> position, decision |-> TerminalDecision(position, last_price, now_ts)]

(***************************************************************************)
(* Responses of the exchange to create_order: a failure (the call raises)  *)
(* or an order, whose filled quantity is a percentage of the requested     *)
(* amount.  An average of 0 is an absent average.                          *)
(***************************************************************************)
Resp(ok, id, status, fill_pct, average) ==
  [ok |-> ok, id |-> id, status |-> status, fill_pct |-> fill_pct, average |-> average]

RespFail == Resp(FALSE, "", "", 0, 0)
RespFilled == Resp(TRUE, "x1", "closed", 100, 2)
RespOpen == Resp(TRUE, "x2", "open", 0, 0)
RespHalf == Resp(TRUE, "x3", "closed", 50, 2)

FilledOf(resp, amount) == (amount * resp.fill_pct) \div 100

\* One order-mutating call as the exchange receives it.
Call(op, type, by, paper) == [op |-> op, type |-> type, by |-> by, paper |-> paper]

\* exits.configure_exits: the position with its resting order ids, and the
\* create_order calls made.
configure_exits(position, paper_mode, tp_resp, sl_resp) ==
  LET limit_exit == ExecSetting("exit_order_type") = "limit"
      tp_id == IF limit_exit /\ tp_resp.ok THEN tp_resp.id ELSE position.tp_order_id
      sl_id == IF sl_resp.ok THEN sl_resp.id ELSE position.sl_order_id
  IN IF paper_mode THEN [position |-> position, calls |-> {}]
     ELSE [position |-> [position EXCEPT !.tp_order_id = tp_id, !.sl_order_id = sl_id],
           calls |-> (IF limit_exit THEN {Call("create_order", "limit", "exits", paper_mode)}
                      ELSE {})
                     \cup {Call("create_order", "stop", "exits", paper_mode)}]

\* One create_order of close_position as it is sent: the side is the
\* opposite of the position's, a market order carries no price (0).
CloseRequest(type, position, price) ==
  [type |-> type, side |-> IF position.side = "buy" THEN "sell" ELSE "buy",
   amount |-> position.amount, price |-> price, reduceOnly |-> TRUE]

\* What close_position returns: the order (raised = the final create_order
\* raised), the create_order calls made, and the requests sent, in order.
Closed(raised, calls, requests, status, average, filled, id) ==
  [raised |-> raised, calls |-> calls, requests |-> requests,
   order |-> [status |-> status, average |-> average, filled |-> filled, id |-> id]]

\* A close that sends the limit order whatever the reason of the decision.
close_position_limit_always(position, decision, paper_mode, limit_resp, market_resp) ==
  IF paper_mode
  THEN Closed(FALSE, {}, <<>>, "closed", decision.exit_price, position.amount, "paper-exit")
  ELSE IF ExecSetting("exit_order_type") = "limit" /\ limit_resp.ok
  THEN Closed(FALSE, {Call("create_order", "limit", "close", paper_mode)},
              <<CloseRequest("limit", position, decision.exit_price)>>,
              limit_resp.status, limit_resp.average,
              FilledOf(limit_resp, position.amount), limit_resp.id)
  ELSE Closed(~market_resp.ok, {Call("create_order", "market", "close", paper_mode)},
              <<CloseRequest("market", position, 0)>>,
              market_resp.status, market_resp.average,
              FilledOf(market_resp, position.amount), market_resp.id)

\* exits.close_position
close_position(position, decision, paper_mode, limit_resp, market_resp) ==
  LET try_limit == ExecSetting("exit_order_type") = "limit" /\ decision.reason = "tp_hit"
      market == Call("create_order", "market", "close", paper_mode)
      limit == Call("create_order", "limit", "close", paper_mode)
      limit_request == CloseRequest("limit", position, decision.exit_price)
      market_request == CloseRequest("market", position, 0)
  IN IF paper_mode
     THEN Closed(FALSE, {}, <<>>, "closed", decision.exit_price, position.amount,
                 "paper-exit")
     ELSE IF try_limit /\ limit_resp.ok
     THEN Closed(FALSE, {limit}, <<limit_request>>, limit_resp.status, limit_resp.average,
                 FilledOf(limit_resp, position.amount), limit_resp.id)
     ELSE Closed(~market_resp.ok,
                 (IF try_limit THEN {limit} ELSE {}) \cup {market},
                 (IF try_limit THEN <<limit_request>> ELSE <<>>) \o <<market_request>>,
                 market_resp.status, market_resp.average,
                 FilledOf(market_resp, position.amount), market_resp.id)

(***************************************************************************)
(* TradingEngine._restore_positions_from_storage                           *)
(***************************************************************************)
\* `"tp" in kind` and `"sl" in kind or "stop" in kind` for the kinds that
\* occur: limit, market, stop, unknown, entry, exit.
KindHasTp(kind) == kind \in {"tp"}
KindHasSl(kind) == kind \in {"sl", "stop"}

\* Lines 132-143.  The open rows are read newest first and every match
\* overwrites the slot, so the oldest matching row decides; "" is None.
RestoredOrderRef(orders, symbol, Matches(_)) ==
  LET rows == list_open_orders(orders)
      hits == {i \in 1..Len(rows) : rows[i].symbol = symbol /\ Matches(rows[i])}
  IN IF symbol = "" \/ hits = {} THEN ""
     ELSE rows[CHOOSE i \in hits : \A j \in hits : j <= i].order_id

IsTpRow(r) == KindHasTp(r.kind) \/ r.reduce_only
IsSlRow(r) == KindHasSl(r.kind) \/ r.stop_price

\* TradingEngine._pair_value: float(pair.get(key) or default).
pair_value(symbol, key, default) ==
  IF symbol \in DOMAIN pairs
  THEN (IF pairs[symbol][key] = 0 THEN default ELSE pairs[symbol][key])
  ELSE default

RestoredSide(row) == IF row.side \in {"long", "buy"} THEN "buy" ELSE "sell"

\* Lines 145-154: rows without a symbol, or with a non-positive amount or
\* entry price, are skipped.
IsRestorable(symbol, row) == symbol # "" /\ row.amount > 0 /\ row.entry_price > 0

RestoredPosition(orders, symbol, row, now_ts) ==
  PositionState(symbol, RestoredSide(row), row.amount, row.entry_price, now_ts,
                compute_tp_sl(row.entry_price, RestoredSide(row),
                              pair_value(symbol, "tp_pct", 12),
                              pair_value(symbol, "sl_pct", 25)),
                RestoredOrderRef(orders, symbol, IsTpRow),
                RestoredOrderRef(orders, symbol, IsSlRow))

\* The whole method: the new value of _positions.
restore_positions_from_storage(orders, tbl, now_ts) ==
  [x \in {y \in DOMAIN tbl : IsRestorable(y, tbl[y])} |->
     RestoredPosition(orders, x, tbl[x], now_ts)]

(***************************************************************************)
(* sizing.py.  Money is in hundredths of a USDT, quantities in 1/QtyScale. *)
(* None is -1 in the market metadata.                                      *)
(***************************************************************************)
SizingSetting(key) == get_setting(key, "")

\* compute_margin_to_use with line 21 clamping to the usable balance only.
compute_margin_to_use_uncapped(balance_free) ==
  LET mode == SizingSetting("sizing_mode")
      reserve == AsFloat(SizingSetting("sizing_reserve_usdt"), 0)
      usable == Max(0, balance_free - reserve)
      margin == IF mode = "full" THEN usable
                ELSE IF mode = "fixed"
                     THEN AsFloat(SizingSetting("sizing_fixed_usdt"), 20 * 100)
                ELSE (usable * AsFloat(SizingSetting("sizing_percent"), 10 * 100))
                     \div (100 * 100)
  IN Max(0, Min(margin, usable))

\* sizing.compute_margin_to_use
compute_margin_to_use(balance_free) ==
  LET mode == SizingSetting("sizing_mode")
      reserve == AsFloat(SizingSetting("sizing_reserve_usdt"), 0)
      max_margin == AsFloat(SizingSetting("max_margin_per_trade_usdt"), balance_free)
      usable == Max(0, balance_free - reserve)
      margin == IF mode = "full" THEN usable
                ELSE IF mode = "fixed"
                     THEN AsFloat(SizingSetting("sizing_fixed_usdt"), 20 * 100)
                ELSE (usable * AsFloat(SizingSetting("sizing_percent"), 10 * 100))
                     \div (100 * 100)
  IN Max(0, Min(margin, Min(usable, max_margin)))

MarketInfo(precision, step, min_qty, min_cost, contract_size) ==
  [precision |-> precision, step |-> step, min_qty |-> min_qty,
   min_cost |-> min_cost, contract_size |-> contract_size]

\* The exchange's market metadata of each symbol: a step of 1 with a minimum
\* of 1 and a minimum cost of 5 USDT; a precision of 0 digits and no limits.
MarketInfoOf ==
  ("A" :> MarketInfo(0 - 1, QtyScale, QtyScale, 5 * 100, 0 - 1))
  @@ ("B" :> MarketInfo(0, 0 - 1, 0 - 1, 0 - 1, 0 - 1))

RECURSIVE Pow10(_)
Pow10(n) == IF n <= 0 THEN 1 ELSE 10 * Pow10(n - 1)

\* 10 ** (-precision) as a quantity.
PrecisionUnit(precision) == QtyScale \div Pow10(precision)

\* sizing._resolve_min_qty
resolve_min_qty(price, market) ==
  LET min0 == market.min_qty
      min1 == IF market.contract_size > 0 /\ min0 >= QtyScale
              THEN (min0 * market.contract_size) \div QtyScale ELSE min0
      min2 == IF min1 >= QtyScale /\ price >= 100
              THEN (IF market.step > 0 THEN market.step
                    ELSE IF market.precision >= 0 THEN PrecisionUnit(market.precision)
                    ELSE min1)
              ELSE min1
      step == IF market.step = 0 - 1 /\ market.precision >= 0
              THEN PrecisionUnit(market.precision) ELSE market.step
  IN [min_qty |-> min2, step |-> step, precision_amount |-> market.precision]

\* round(num / den, 0) of Python: to the nearest integer, ties to even.
RoundHalfEven(num, den) ==
  LET q == num \div den
      r == num % den
  IN IF 2 * r > den \/ (2 * r = den /\ q % 2 = 1) THEN q + 1 ELSE q

\* sizing.apply_precision without lines 154-161: no floor to the step.
apply_precision_unfloored(num, den, precision, step) ==
  LET rn == IF precision >= 0 THEN RoundHalfEven(num * Pow10(precision), den) ELSE num
      rd == IF precision >= 0 THEN Pow10(precision) ELSE den
  IN IF num <= 0 THEN 0 ELSE (rn * QtyScale) \div rd

\* sizing.apply_precision of the quantity num / den: round to `precision`
\* digits, then floor to a multiple of `step`.
apply_precision(num, den, precision, step) ==
  LET rn == IF precision >= 0 THEN RoundHalfEven(num * Pow10(precision), den) ELSE num
      rd == IF precision >= 0 THEN Pow10(precision) ELSE den
  IN IF num <= 0 THEN 0
     ELSE IF step > 0 THEN ((rn * QtyScale) \div (rd * step)) * step
     ELSE (rn * QtyScale) \div rd

\* The intermediate figures compute_order_amount returns with every result:
\* quantities in 1/QtyScale, the cost in USDT/QtyScale.
Details(qty_raw, qty_rounded, lim, min_cost, cost) ==
  [qty_raw |-> qty_raw, qty_rounded |-> qty_rounded, min_qty |-> lim.min_qty,
   min_cost |-> min_cost, step |-> lim.step, precision_amount |-> lim.precision_amount,
   cost |-> cost]

NoDetails == [qty_raw |-> 0]

Sized(raised, amount, error, details) ==
  [raised |-> raised, amount |-> amount, error |-> error, details |-> details]

\* The checks without lines 79-80: the minimum cost is not looked at.
CheckedAmountNoCost(price, market, min_qty, qty_rounded, details) ==
  IF qty_rounded <= 0 THEN Sized(FALSE, 0, "qty_after_round <= 0", details)
  ELSE IF min_qty # 0 - 1 /\ qty_rounded < min_qty
       THEN Sized(FALSE, 0, "qty_rounded < minQty", details)
  ELSE Sized(FALSE, qty_rounded, "", details)

\* Lines 60-82 of compute_order_amount: the checks on the rounded quantity.
CheckedAmount(price, market, min_qty, qty_rounded, details) ==
  IF qty_rounded <= 0 THEN Sized(FALSE, 0, "qty_after_round <= 0", details)
  ELSE IF min_qty # 0 - 1 /\ qty_rounded < min_qty
       THEN Sized(FALSE, 0, "qty_rounded < minQty", details)
  ELSE IF market.min_cost # 0 - 1 /\ qty_rounded * price * 100 < market.min_cost * QtyScale
       THEN Sized(FALSE, 0, "notional < minCost", details)
  ELSE Sized(FALSE, qty_rounded, "", details)

\* Lines 60-74: the rounded quantity and the figures.
DetailedAmount(price, market, notional, lim, qty_rounded) ==
  CheckedAmount(price, market, lim.min_qty, qty_rounded,
                Details((notional * QtyScale) \div (price * 100), qty_rounded, lim,
                        market.min_cost, qty_rounded * price))

RoundedAmount(price, market, notional, lim) ==
  DetailedAmount(price, market, notional, lim,
                 apply_precision(notional, price * 100, lim.precision_amount, lim.step))

\* sizing.compute_order_amount: raised (ValueError), or the quantity (0 is
\* None), the rejection reason and the figures.
compute_order_amount(price, margin_usdt, leverage, market) ==
  IF price <= 0 \/ leverage <= 0 THEN Sized(TRUE, 0, "", NoDetails)
  ELSE IF margin_usdt <= 0
  THEN Sized(FALSE, 0, "Non-positive margin",
             Details(0, 0, resolve_min_qty(price, market), market.min_cost, 0))
  ELSE RoundedAmount(price, market, margin_usdt * leverage, resolve_min_qty(price, market))

(***************************************************************************)
(* executor.py                                                             *)
(***************************************************************************)
EntryResult(success, status, order_id, filled, avg_price) ==
  [success |-> success, status |-> status, order_id |-> order_id,
   filled |-> filled, avg_price |-> avg_price]

\* A threshold that a fill of exactly min_fill_pct does not meet.
result_from_order_strict(order, requested_amount, min_fill_pct) ==
  EntryResult(requested_amount > 0
                /\ FilledOf(order, requested_amount) * 100 * 100
                     > min_fill_pct * requested_amount,
              IF order.status = "" THEN "unknown" ELSE order.status,
              order.id, FilledOf(order, requested_amount), order.average)

\* executor._result_from_order: success iff filled / requested * 100 >=
\* min_fill_pct (min_fill_pct in hundredths).
result_from_order(order, requested_amount, min_fill_pct) ==
  LET filled == FilledOf(order, requested_amount)
      success == IF requested_amount > 0
                 THEN filled * 100 * 100 >= min_fill_pct * requested_amount
                 ELSE 0 >= min_fill_pct
  IN EntryResult(success, IF order.status = "" THEN "unknown" ELSE order.status,
                 order.id, filled, order.average)

\* An EntryResult with the order-mutating calls that led to it, in the order
\* they were made, and the seconds spent in the poll loops.
Placed(result, calls, elapsed) == [result |-> result, calls |-> calls, elapsed |-> elapsed]

\* executor._place_market
place_market(amount, min_fill_pct, paper_mode, market_resp) ==
  Placed(IF market_resp.ok THEN result_from_order(market_resp, amount, min_fill_pct)
         ELSE EntryResult(FALSE, "error", "", 0, 0),
         <<Call("create_order", "market", "entry", paper_mode)>>, 0)

\* One attempt of the limit loop as the exchange answers it: the submission
\* (ok = FALSE: the ticker fetch or create_order raised), the terminal order
\* a poll saw (ok = FALSE: none before the timeout), whether the cancel_order
\* after the timeout went through, and the order fetched after the cancel
\* (ok = FALSE: that fetch raised).
Attempt(submit, polled, recheck) ==
  [submit |-> submit, polled |-> polled, cancel_ok |-> TRUE, recheck |-> recheck]

\* An attempt that timed out and whose cancel_order raised (lines 119-122).
AttemptUncancelled(submit, recheck) ==
  [submit |-> submit, polled |-> RespFail, cancel_ok |-> FALSE, recheck |-> recheck]

\* An executor that goes to the market whatever allow_market_fallback says.
ExhaustedToMarket(fallback, market, failure) == market

\* Lines 93-97 and 131-135: the last attempt has failed.
Exhausted(fallback, market, failure) == IF fallback THEN market ELSE failure

\* _place_limit_with_timeout without lines 124-129: after the timeout and
\* the cancel the order is not looked at again.
RECURSIVE place_limit_unchecked(_, _, _, _, _, _, _)
place_limit_unchecked(attempt, attempts, amount, min_fill_pct, paper_mode, script, market_resp) ==
  LET a == script[attempt]
      timeout_sec == Max(1, AsInt(ExecSetting("entry_timeout_sec"), 30))
      fallback == AsBool(ExecSetting("allow_market_fallback"))
      last == attempt >= attempts
      limit == Call("create_order", "limit", "entry", paper_mode)
      cancel == Call("cancel_order", "limit", "entry", paper_mode)
      rest == place_limit_unchecked(attempt + 1, attempts, amount, min_fill_pct,
                                    paper_mode, script, market_resp)
      market == place_market(amount, min_fill_pct, paper_mode, market_resp)
  IN IF attempt > attempts
     THEN Placed(EntryResult(FALSE, "timeout", "", 0, 0), <<>>, 0)
     ELSE IF ~a.submit.ok
     THEN (IF last
           THEN Exhausted(fallback, market,
                          Placed(EntryResult(FALSE, "error", "", 0, 0), <<>>, 0))
           ELSE rest)
     ELSE IF a.polled.ok
     THEN Placed(result_from_order(a.polled, amount, min_fill_pct), <<limit>>, 0)
     ELSE IF last
     THEN Exhausted(fallback,
                    Placed(market.result, <<limit, cancel>> \o market.calls, timeout_sec),
                    Placed(EntryResult(FALSE, "timeout", a.submit.id, 0, 0),
                           <<limit, cancel>>, timeout_sec))
     ELSE Placed(rest.result, <<limit, cancel>> \o rest.calls, rest.elapsed + timeout_sec)

\* executor._place_limit_with_timeout, from attempt number `attempt` on.
RECURSIVE place_limit_from(_, _, _, _, _, _, _)
place_limit_from(attempt, attempts, amount, min_fill_pct, paper_mode, script, market_resp) ==
  LET a == script[attempt]
      timeout_sec == Max(1, AsInt(ExecSetting("entry_timeout_sec"), 30))
      fallback == AsBool(ExecSetting("allow_market_fallback"))
      last == attempt >= attempts
      limit == Call("create_order", "limit", "entry", paper_mode)
      cancel == Call("cancel_order", "limit", "entry", paper_mode)
      rest == place_limit_from(attempt + 1, attempts, amount, min_fill_pct,
                               paper_mode, script, market_resp)
      market == place_market(amount, min_fill_pct, paper_mode, market_resp)
      rechecked == result_from_order(a.recheck, amount, min_fill_pct)
  IN IF attempt > attempts
     THEN Placed(EntryResult(FALSE, "timeout", "", 0, 0), <<>>, 0)
     ELSE IF ~a.submit.ok
     THEN (IF last
           THEN Exhausted(fallback, market,
                          Placed(EntryResult(FALSE, "error", "", 0, 0), <<>>, 0))
           ELSE rest)
     ELSE IF a.polled.ok
     THEN Placed(result_from_order(a.polled, amount, min_fill_pct), <<limit>>, 0)
     ELSE IF a.recheck.ok /\ rechecked.success
     THEN Placed(rechecked, <<limit, cancel>>, timeout_sec)
     ELSE IF last
     THEN Exhausted(fallback,
                    Placed(market.result, <<limit, cancel>> \o market.calls, timeout_sec),
                    Placed(EntryResult(FALSE, "timeout", a.submit.id, 0, 0),
                           <<limit, cancel>>, timeout_sec))
     ELSE Placed(rest.result, <<limit, cancel>> \o rest.calls, rest.elapsed + timeout_sec)

\* An executor whose limit loop makes retry_count attempts, not one more.
place_entry_without_first(amount, paper_mode, script, market_resp) ==
  IF amount <= 0 THEN Placed(EntryResult(FALSE, "rejected", "", 0, 0), <<>>, 0)
  ELSE IF ExecSetting("entry_order_type") = "market"
  THEN place_market(amount, AsFloat(ExecSetting("min_fill_pct"), DefaultMinFillPct * 100),
                    paper_mode, market_resp)
  ELSE IF ExecSetting("entry_order_type") = "limit"
  THEN place_limit_from(1, Max(0, AsInt(ExecSetting("entry_retry_count"), 0)), amount,
                        AsFloat(ExecSetting("min_fill_pct"), DefaultMinFillPct * 100),
                        paper_mode, script, market_resp)
  ELSE Placed(EntryResult(FALSE, "rejected", "", 0, 0), <<>>, 0)

\* executor.place_entry
place_entry(amount, paper_mode, script, market_resp) ==
  LET order_type == ExecSetting("entry_order_type")
      min_fill_pct == AsFloat(ExecSetting("min_fill_pct"), DefaultMinFillPct * 100)
      retry_count == Max(0, AsInt(ExecSetting("entry_retry_count"), 0))
  IN IF amount <= 0 THEN Placed(EntryResult(FALSE, "rejected", "", 0, 0), <<>>, 0)
     ELSE IF order_type = "market"
          THEN place_market(amount, min_fill_pct, paper_mode, market_resp)
     ELSE IF order_type = "limit"
          THEN place_limit_from(1, retry_count + 1, amount, min_fill_pct,
                                paper_mode, script, market_resp)
     ELSE Placed(EntryResult(FALSE, "rejected", "", 0, 0), <<>>, 0)

(***************************************************************************)
(* The tick: TradingEngine._loop_iteration and what it calls.              *)
(***************************************************************************)
PaperMode == SettingBool("paper_mode", TRUE)

\* TradingEngine._order_timestamp_seconds: a value above 10^10 is taken as
\* milliseconds and divided by 1000, which is what a ccxt timestamp is.
order_timestamp_seconds(order) == order.timestamp.sec

IsStale(order, now_ts, ttl_sec) ==
  /\ order.id # ""
  /\ order.timestamp.kind # "none"
  /\ ~(now_ts - order_timestamp_seconds(order) <= ttl_sec)

\* Lines 512-517: the cancel_order of one stale order; one that raises (its
\* id is in `failing`) is logged.
StaleCancel(acc, order, failing) ==
  [attempted |-> Append(acc.attempted, order.id),
   canceled |-> acc.canceled + (IF order.id \in failing THEN 0 ELSE 1)]

\* The loop of lines 500-517 stopping at the first cancel_order that raises.
RECURSIVE StaleCancelsUntilFailure(_, _, _, _, _)
StaleCancelsUntilFailure(list, now_ts, ttl_sec, failing, acc) ==
  IF list = <<>> THEN acc
  ELSE IF ~IsStale(Head(list), now_ts, ttl_sec)
  THEN StaleCancelsUntilFailure(Tail(list), now_ts, ttl_sec, failing, acc)
  ELSE IF Head(list).id \in failing THEN StaleCancel(acc, Head(list), failing)
  ELSE StaleCancelsUntilFailure(Tail(list), now_ts, ttl_sec, failing,
                                StaleCancel(acc, Head(list), failing))

\* Lines 500-517: the loop over the fetched orders, in their order.
RECURSIVE StaleCancels(_, _, _, _, _)
StaleCancels(list, now_ts, ttl_sec, failing, acc) ==
  IF list = <<>> THEN acc
  ELSE StaleCancels(Tail(list), now_ts, ttl_sec, failing,
                    IF IsStale(Head(list), now_ts, ttl_sec)
                    THEN StaleCancel(acc, Head(list), failing) ELSE acc)

NoCancels == [attempted |-> <<>>, canceled |-> 0]

Swept(last_ts, raised, swept, fetched, cancels) ==
  [last_ts |-> last_ts, raised |-> raised, swept |-> swept, fetched |-> fetched,
   attempted |-> cancels.attempted, canceled |-> cancels.canceled]

\* _maybe_cleanup_stale_orders with line 490 moved behind the fetch: a sweep
\* whose fetch failed leaves _last_stale_check_ts as it was.
cleanup_stale_orders_retrying(now_ts, last_ts, fetch, failing) ==
  LET ttl == SettingInt("stale_order_ttl_sec", DefaultStaleTtl, 1)
  IN IF now_ts - last_ts < StaleCheckPeriod
     THEN Swept(last_ts, FALSE, FALSE, FALSE, NoCancels)
     ELSE IF ttl.raised THEN Swept(now_ts, TRUE, TRUE, FALSE, NoCancels)
     ELSE IF fetch.ok # "ok" THEN Swept(last_ts, FALSE, TRUE, FALSE, NoCancels)
     ELSE Swept(now_ts, FALSE, TRUE, TRUE,
                StaleCancels(fetch.list, now_ts, ttl.val, failing, NoCancels))

\* TradingEngine._maybe_cleanup_stale_orders: the new _last_stale_check_ts,
\* whether the call raised, whether it was a sweep (line 490 reached),
\* whether the fetch succeeded, and the ids a cancel_order was sent for, in
\* order, with the number canceled.
cleanup_stale_orders(now_ts, last_ts, fetch, failing) ==
  LET ttl == SettingInt("stale_order_ttl_sec", DefaultStaleTtl, 1)
  IN IF now_ts - last_ts < StaleCheckPeriod
     THEN Swept(last_ts, FALSE, FALSE, FALSE, NoCancels)
     ELSE IF ttl.raised THEN Swept(now_ts, TRUE, TRUE, FALSE, NoCancels)
     ELSE IF fetch.ok # "ok" THEN Swept(now_ts, FALSE, TRUE, FALSE, NoCancels)
     ELSE Swept(now_ts, FALSE, TRUE, TRUE,
                StaleCancels(fetch.list, now_ts, ttl.val, failing, NoCancels))

\* The sweep as the tick sees it: the cancel_order calls made are what the
\* exchange received, whichever of them raised.
SweepCalls(sweep) ==
  [last_ts |-> sweep.last_ts, raised |-> sweep.raised, swept |-> sweep.swept,
   calls |-> IF sweep.attempted = <<>> THEN {}
             ELSE {Call("cancel_order", "", "sweep", PaperMode)}]

maybe_cleanup_stale_orders(now_ts, last_ts, fetch) ==
  SweepCalls(cleanup_stale_orders(now_ts, last_ts, fetch, {}))

\* What the exchange answers while one open position is processed: the
\* ticker (-1: the fetch raised; 0: no last price) and the close orders.
ExitInput(ticker, limit_resp, market_resp) ==
  [ticker |-> ticker, limit_resp |-> limit_resp, market_resp |-> market_resp]

TradeRow(position, filled, exit_price, paper_mode, reason) ==
  [symbol |-> position.symbol, side |-> position.side, qty |-> filled,
   entry |-> position.entry_price, exit |-> exit_price,
   pnl |-> (exit_price - position.entry_price) * filled,
   mode |-> IF paper_mode THEN "paper" ELSE "live", reason |-> reason]

\* The state a tick works on: the position map, the orders and trades
\* tables, the order-mutating calls made so far, whether an exception has
\* left the handler, the seconds spent waiting on limit entries, and the
\* symbols that had a Position when an entry for them was attempted.
TickState(pos, orders, trades, calls) ==
  [positions |-> pos, orders |-> orders, trades |-> trades, calls |-> calls,
   raised |-> FALSE, elapsed |-> 0, held_at_entry |-> {}]

\* Lines 397-428: the close succeeded; the trade and the exit order are
\* recorded and the Position leaves the map.
RecordClose(st, position, decision, paper_mode, last_price, closed) ==
  LET filled == IF closed.order.filled = 0 THEN position.amount ELSE closed.order.filled
      exit_price == IF closed.order.average # 0 THEN closed.order.average
                    ELSE IF decision.exit_price # 0 THEN decision.exit_price
                    ELSE last_price
  IN [st EXCEPT
        !.positions = Drop(st.positions, position.symbol),
        !.trades = Append(st.trades, TradeRow(position, filled, exit_price, paper_mode,
                                              decision.reason)),
        !.orders = insert_order(st.orders,
                     OrderRow(position.symbol, "exit", closed.order.id,
                              IF closed.order.status = "" THEN "closed"
                              ELSE closed.order.status, FALSE, FALSE)),
        !.calls = st.calls \cup closed.calls]

\* Lines 389-426: close_position and what follows it; an exception leaves
\* the Position in the map.
ClosePosition(st, position, decision, paper_mode, last_price, closed) ==
  IF closed.raised THEN [st EXCEPT !.calls = @ \cup closed.calls]
  ELSE RecordClose(st, position, decision, paper_mode, last_price, closed)

\* Lines 381-387: the exit decision; the break-even move has changed the
\* Position in place.
DecideExit(st, symbol, paper_mode, xi, last_price, ev) ==
  IF ~ev.decision.should_close THEN [st EXCEPT !.positions[symbol] = ev.position]
  ELSE ClosePosition([st EXCEPT !.positions[symbol] = ev.position], ev.position,
                     ev.decision, paper_mode, last_price,
                     close_position(ev.position, ev.decision, paper_mode,
                                    xi.limit_resp, xi.market_resp))

\* Line 376: ticker.get("last") or ticker.get("close") or position.entry_price.
LastPrice(position, ticker) == IF ticker = 0 THEN position.entry_price ELSE ticker

PricedPosition(st, symbol, now_ts, paper_mode, xi, last_price) ==
  DecideExit(st, symbol, paper_mode, xi, last_price,
             evaluate_exit(st.positions[symbol], last_price, now_ts))

\* A loop body that drops the Position whose ticker fetch failed.
ProcessPositionForgetting(st, symbol, now_ts, paper_mode, xi) ==
  IF xi.ticker = 0 - 1 THEN [st EXCEPT !.positions = Drop(st.positions, symbol)]
  ELSE PricedPosition(st, symbol, now_ts, paper_mode, xi,
                      LastPrice(st.positions[symbol], xi.ticker))

\* The body of the loop of _process_open_positions for one symbol.
ProcessPosition(st, symbol, now_ts, paper_mode, xi) ==
  IF xi.ticker = 0 - 1 THEN st
  ELSE PricedPosition(st, symbol, now_ts, paper_mode, xi,
                      LastPrice(st.positions[symbol], xi.ticker))

\* TradingEngine._process_open_positions over the keys of _positions as
\* they were when the loop began.
RECURSIVE process_open_positions(_, _, _, _, _)
process_open_positions(st, symbols, now_ts, paper_mode, xis) ==
  IF symbols = <<>> THEN st
  ELSE process_open_positions(
         ProcessPosition(st, Head(symbols), now_ts, paper_mode, xis[Head(symbols)]),
         Tail(symbols), now_ts, paper_mode, xis)

\* str.strip() on the symbols that occur.
Strip(symbol) == IF symbol = " A" THEN "A" ELSE IF symbol = " B" THEN "B" ELSE symbol

SeqOfSet(order, set) ==
  LET Keep(x) == x \in set
  IN SelectSeq(order, Keep)

\* The enabled pairs, without the filter of line 199.
ActivePairsHeld(pos) ==
  LET enabled == {x \in DOMAIN pairs : pairs[x].enabled = 1}
      filtered == IF SettingBool("trade_only_zero_fee", FALSE)
                  THEN enabled \cap ZeroFeeSymbols ELSE enabled
  IN SeqOfSet(SymbolOrder, filtered)

\* Lines 198-200: the enabled pairs without a Position, in symbol order,
\* after the zero-fee filter.
ActivePairs(pos) ==
  LET enabled == {x \in DOMAIN pairs : pairs[x].enabled = 1}
      flat == {x \in enabled : x \notin DOMAIN pos}
      filtered == IF SettingBool("trade_only_zero_fee", FALSE)
                  THEN flat \cap ZeroFeeSymbols ELSE flat
  IN SeqOfSet(SymbolOrder, filtered)

\* What the signal evaluation of one pair gives: kind "none" or "signal"
\* with its score and the last close.
SignalInput(kind, score, price) == [kind |-> kind, score |-> score, price |-> price]

Candidate(symbol, sig) ==
  [symbol |-> Strip(symbol), score |-> sig.score,
   leverage |-> IF pairs[symbol].leverage = 0 THEN 1 ELSE pairs[symbol].leverage,
   price |-> sig.price, tp_pct |-> pairs[symbol].tp_pct, sl_pct |-> pairs[symbol].sl_pct,
   market_info |-> MarketInfoOf[symbol]]

\* Lines 203-235: the candidates, in the order of the active pairs.
Candidates(active, sigs) ==
  LET IsSignal(x) == Strip(x) # "" /\ sigs[x].kind = "signal"
      hits == SelectSeq(active, IsSignal)
  IN [i \in 1..Len(hits) |-> Candidate(hits[i], sigs[hits[i]])]

\* sorted(candidates, key=score, reverse=True): stable.
SortedByScore(c) ==
  LET rank(i) == Cardinality({j \in 1..Len(c) :
                    c[j].score > c[i].score \/ (c[j].score = c[i].score /\ j < i)}) + 1
  IN [k \in 1..Len(c) |-> c[CHOOSE i \in 1..Len(c) : rank(i) = k]]

\* int(max_positions_raw): ValueError unless the string is an integer.
IsIntString(raw) == raw \in DOMAIN NumberStrings /\ NumberStrings[raw] % 100 = 0
                    /\ raw \notin {"0.10", "0.02"}

\* A limit that a row below 1 can bring to nothing.
PositionLimitUnfloored(n) ==
  IF get_setting("max_concurrent_positions", "1") = "ALL" THEN n
  ELSE IF IsIntString(get_setting("max_concurrent_positions", "1"))
  THEN NumberStrings[get_setting("max_concurrent_positions", "1")] \div 100
  ELSE 1

\* Lines 431-439.
PositionLimit(n) ==
  LET raw == get_setting("max_concurrent_positions", "1")
  IN IF raw = "ALL" THEN n
     ELSE IF IsIntString(raw) THEN Max(1, NumberStrings[raw] \div 100)
     ELSE 1

\* A round robin that leaves the cursor where it was.
select_round_robin_stuck(ordered, limit, rr) ==
  IF Len(ordered) = 0 \/ limit <= 0 THEN [selected |-> <<>>, rr |-> rr]
  ELSE [selected |-> [i \in 1..Min(limit, Len(ordered)) |->
                        ordered[(((rr % Len(ordered)) + i - 1) % Len(ordered)) + 1]],
        rr |-> rr % Len(ordered)]

\* TradingEngine._select_round_robin
select_round_robin(ordered, limit, rr) ==
  LET n == Len(ordered)
      start == rr % n
      k == Min(limit, n)
  IN IF n = 0 \/ limit <= 0 THEN [selected |-> <<>>, rr |-> rr]
     ELSE [selected |-> [i \in 1..k |-> ordered[((start + i - 1) % n) + 1]],
           rr |-> (start + k) % n]

\* The outcomes random.shuffle / random.sample can give: the sequences of
\* k distinct indices of the pool.
Draws(n, k) ==
  {d \in [1..k -> 1..n] : \A i, j \in 1..k : i # j => d[i] # d[j]}

\* TradingEngine._select_random_top_k, with the random draw as an input.
select_random_top_k(ordered, limit, draw) ==
  LET top_k == SettingInt("random_top_k", 3, 1).val
      pool == SubSeq(ordered, 1, Min(top_k, Len(ordered)))
  IN IF Len(ordered) = 0 \/ limit <= 0 THEN <<>>
     ELSE [i \in 1..Len(draw) |-> pool[draw[i]]]

PoolSize(n) == Min(SettingInt("random_top_k", 3, 1).val, n)

SelectionMode == get_setting("selection_mode", "best_score")

\* TradingEngine._apply_position_limit
apply_position_limit(candidates, rr, draw) ==
  LET limit == PositionLimit(Len(candidates))
      ordered == SortedByScore(candidates)
  IN IF SelectionMode = "round_robin" THEN select_round_robin(ordered, limit, rr)
     ELSE IF SelectionMode = "random_top_k"
          THEN [selected |-> select_random_top_k(ordered, limit, draw), rr |-> rr]
     ELSE [selected |-> SubSeq(ordered, 1, Min(limit, Len(ordered))), rr |-> rr]

\* The draws apply_position_limit can consume for n candidates.
DrawsFor(n) ==
  IF SelectionMode = "random_top_k" /\ n > 0
  THEN Draws(PoolSize(n), Min(PositionLimit(n), PoolSize(n)))
  ELSE {<<>>}

\* What the exchange answers while one selected candidate is entered.
EntryInput(market_resp, script, tp_resp, sl_resp) ==
  [market_resp |-> market_resp, script |-> script, tp_resp |-> tp_resp, sl_resp |-> sl_resp]

\* Lines 331-339: the Position is put in the map and the entry order row
\* is written.
RegisterEntry(st, order_id, entry_status, calls, elapsed, configured) ==
  [st EXCEPT !.positions = Put(st.positions, configured.position.symbol,
                               configured.position),
             !.orders = insert_order(st.orders,
                           OrderRow(configured.position.symbol, "entry", order_id,
                                    entry_status, FALSE, FALSE)),
             !.calls = st.calls \cup calls \cup configured.calls,
             !.elapsed = st.elapsed + elapsed]

\* Lines 321-330: TradingEngine._open_position.
open_position(symbol, amount, entry_price, tp_pct, sl_pct, opened_ts, paper_mode, ei) ==
  configure_exits(PositionState(symbol, "buy", amount, entry_price, opened_ts,
                                compute_tp_sl(entry_price, "buy", tp_pct, sl_pct), "", ""),
                  paper_mode, ei.tp_resp, ei.sl_resp)

\* Lines 295-319: the live entry, given what place_entry returned.
LiveEntry(st, item, now_ts, ei, placed) ==
  IF ~placed.result.success
  THEN [st EXCEPT !.calls = @ \cup SeqRange(placed.calls), !.elapsed = @ + placed.elapsed]
  ELSE RegisterEntry(st, placed.result.order_id, placed.result.status,
                     SeqRange(placed.calls),
                     placed.elapsed,
                     open_position(item.symbol, placed.result.filled,
                                   IF placed.result.avg_price # 0
                                   THEN placed.result.avg_price ELSE item.price,
                                   item.tp_pct, item.sl_pct,
                                   now_ts + st.elapsed + placed.elapsed, FALSE, ei))

\* Lines 285-294: the paper entry.
PaperEntry(st, item, now_ts, ei, amount) ==
  RegisterEntry(st, "paper-entry", "paper", {}, 0,
                open_position(item.symbol, amount, item.price, item.tp_pct, item.sl_pct,
                              now_ts + st.elapsed, TRUE, ei))

\* Lines 278-339, given the sized amount.
EnterSized(st, item, now_ts, paper_mode, ei, sized) ==
  IF sized.raised THEN [st EXCEPT !.raised = TRUE]
  ELSE IF sized.amount = 0 THEN st
  ELSE IF paper_mode THEN PaperEntry(st, item, now_ts, ei, sized.amount)
  ELSE LiveEntry(st, item, now_ts, ei,
                 place_entry(sized.amount, FALSE, ei.script, ei.market_resp))

\* Lines 246-339 for one selected candidate, on the tick state st.  An entry
\* attempted for a symbol that has a Position is noted in held_at_entry.
EnterCandidate(st, item, now_ts, paper_mode, free_balance, ei) ==
  EnterSized([st EXCEPT !.held_at_entry = @ \cup ({item.symbol} \cap DOMAIN st.positions)],
             item, now_ts, paper_mode, ei,
             compute_order_amount(item.price, compute_margin_to_use(free_balance),
                                  item.leverage, item.market_info))

\* The loop of lines 245-339: an exception ends it.
RECURSIVE EnterSelected(_, _, _, _, _, _)
EnterSelected(st, selected, now_ts, paper_mode, free_balance, eis) ==
  IF selected = <<>> \/ st.raised THEN st
  ELSE EnterSelected(
         EnterCandidate(st, Head(selected), now_ts, paper_mode, free_balance,
                        eis[Head(selected).symbol]),
         Tail(selected), now_ts, paper_mode, free_balance, eis)

\* TradingEngine._fetch_free_usdt_balance: the balance, or 100 USDT when the
\* fetch fails (-1).
fetch_free_usdt_balance(fetched) == IF fetched = 0 - 1 THEN PaperBalance * 100 ELSE fetched

\* What the world answers during one tick.
TickInput(sweep, xis, sigs, draw, balance, eis) ==
  [sweep |-> sweep, xis |-> xis, sigs |-> sigs, draw |-> draw, balance |-> balance,
   eis |-> eis]

TickResult(st, rr, last_ts) == [st |-> st, rr |-> rr, last_ts |-> last_ts]

\* Lines 240-339: the selection and the entries.
EnterSelection(st, now_ts, paper_mode, inp, last_ts, sel) ==
  TickResult(EnterSelected(st, sel.selected, now_ts, paper_mode,
                           fetch_free_usdt_balance(inp.balance), inp.eis),
             sel.rr, last_ts)

\* Lines 237-240.
EnterCandidates(st, rr, now_ts, paper_mode, inp, last_ts, candidates) ==
  IF candidates = <<>> THEN TickResult(st, rr, last_ts)
  ELSE EnterSelection(st, now_ts, paper_mode, inp, last_ts,
                      apply_position_limit(candidates, rr, inp.draw))

\* Lines 198-339: candidates, selection, entries, on the tick state after
\* the exits.
EnterStage(st, rr, now_ts, paper_mode, inp, last_ts) ==
  EnterCandidates(st, rr, now_ts, paper_mode, inp, last_ts,
                  Candidates(ActivePairs(st.positions), inp.sigs))

\* Lines 193-339, given what the stale-order sweep did.  The open positions
\* are processed in symbol order (the code's order is the map's insertion
\* order; it only decides the order of the rows written).
AfterSweep(pos, orders, trades, rr, now_ts, inp, sweep) ==
  IF sweep.raised
  THEN TickResult([TickState(pos, orders, trades, {}) EXCEPT !.raised = TRUE], rr,
                  sweep.last_ts)
  ELSE EnterStage(process_open_positions(TickState(pos, orders, trades, sweep.calls),
                                         SeqOfSet(SymbolOrder, DOMAIN pos), now_ts,
                                         PaperMode, inp.xis),
                  rr, now_ts, PaperMode, inp, sweep.last_ts)

\* TradingEngine._loop_iteration: the engine and store state after the tick.
loop_iteration(pos, orders, trades, rr, last_ts, now_ts, inp) ==
  IF ~HasClient THEN TickResult(TickState(pos, orders, trades, {}), rr, last_ts)
  ELSE AfterSweep(pos, orders, trades, rr, now_ts, inp,
                  maybe_cleanup_stale_orders(now_ts, last_ts, inp.sweep))

\* Lines 75-89: the loop over the fetched orders.  An order without an id is
\* skipped; a cancel_order that raises (its id is in `failing`) is logged and
\* the loop goes on.
CancelOne(acc, order_id, failing) ==
  [attempted |-> Append(acc.attempted, order_id),
   canceled |-> acc.canceled + (IF order_id \in failing THEN 0 ELSE 1)]

\* A loop that a raising cancel_order leaves.
RECURSIVE CancelUntilFailure(_, _, _)
CancelUntilFailure(list, failing, acc) ==
  IF list = <<>> THEN acc
  ELSE IF ~HasId(Head(list)) THEN CancelUntilFailure(Tail(list), failing, acc)
  ELSE IF Head(list).id \in failing THEN CancelOne(acc, Head(list).id, failing)
  ELSE CancelUntilFailure(Tail(list), failing, CancelOne(acc, Head(list).id, failing))

RECURSIVE CancelEach(_, _, _)
CancelEach(list, failing, acc) ==
  IF list = <<>> THEN acc
  ELSE IF ~HasId(Head(list)) THEN CancelEach(Tail(list), failing, acc)
  ELSE CancelEach(Tail(list), failing, CancelOne(acc, Head(list).id, failing))

\* TradingEngine.cancel_all_open_orders(): the ids a cancel_order was sent
\* for, in order, the number canceled, and the calls the exchange received.
cancel_all_open_orders(fetch, paper_mode, failing) ==
  LET done == CancelEach(FetchedList(fetch), failing, [attempted |-> <<>>, canceled |-> 0])
  IN IF ~HasClient THEN [attempted |-> <<>>, canceled |-> 0, calls |-> {}]
     ELSE [attempted |-> done.attempted, canceled |-> done.canceled,
           calls |-> IF done.attempted = <<>> THEN {}
                     ELSE {Call("cancel_order", "", "panic", paper_mode)}]

(***************************************************************************)
(* The inputs a step can receive.                                          *)
(***************************************************************************)
NoFetch == [ok |-> "fail", list |-> <<>>]

\* last_sync while no start() is between its sync and its rebuild.
NoSync == [ran |-> FALSE, fo |-> NoFetch, fp |-> NoFetch]

Tickers == {0 - 1, 0, 1, 3}
CloseResps == {RespFail, RespFilled}

ExitInputs ==
  IF PaperMode THEN {ExitInput(tk, RespFail, RespFail) : tk \in Tickers}
  ELSE IF ExecSetting("exit_order_type") = "limit"
  THEN {ExitInput(tk, lr, mr) : tk \in Tickers, lr \in CloseResps, mr \in CloseResps}
  ELSE {ExitInput(tk, RespFail, mr) : tk \in Tickers, mr \in CloseResps}

\* No signal (or an exception while the pair is evaluated, line 234, which
\* leaves the same state), or a signal with its score and last close.
SignalInputs ==
  {SignalInput("none", 0, 2), SignalInput("signal", 1, 2), SignalInput("signal", 2, 2),
   SignalInput("signal", 1, 0)}

\* fetch_balance: fails, or reports 5 USDT free.
Balances == {0 - 1, 5 * 100}

\* The answers to the one attempt of a limit entry (entry_retry_count is 0).
LimitScripts ==
  IF ExecSetting("entry_order_type") = "limit"
  THEN {<<Attempt(sb, po, rc)>> : sb \in {RespFail, RespOpen},
                                  po \in {RespFail, RespFilled},
                                  rc \in {RespFail, RespHalf}}
  ELSE {<<>>}

\* The answers to a market entry, where one can be placed.
MarketResps ==
  IF ExecSetting("entry_order_type") = "market"
     \/ AsBool(ExecSetting("allow_market_fallback"))
  THEN {RespFail, RespFilled, RespOpen}
  ELSE {RespFail}

\* The answers to the protective orders: both placed, or both refused.
EntryInputs ==
  IF PaperMode THEN {EntryInput(RespFail, <<>>, RespFail, RespFail)}
  ELSE {EntryInput(mr, sc, xr, xr) : mr \in MarketResps, sc \in LimitScripts,
                                     xr \in {RespFail, RespOpen}}

(***************************************************************************)
(* The lifecycle: start(), stop(), panic_stop() as their callers step      *)
(* through them, and the loop thread.                                      *)
(***************************************************************************)
Alive(t) == loop_pc[t] \in {"top", "iter", "wait"}

\* TradingEngine.is_running
is_running == thread # 0 /\ Alive(thread)

Unborn == {t \in ThreadIds : loop_pc[t] = "unborn"}

\* The GUI starts and stops the engine on its action thread.
StartCall(c) ==
  /\ c = "action_thread"
  /\ cpc[c] = "idle"
  /\ Unborn # {}
  /\ cpc' = [cpc EXCEPT ![c] = "start_check"]
  /\ UNCHANGED <<engine_vars, store_vars, cop, cjoin, cpaper, now, ticks, ex_calls,
                 last_sync, last_tick, last_call>>

\* A start() without the return of lines 36-37.
StartCheckAlways(c) ==
  /\ cpc[c] = "start_check"
  /\ cpc' = [cpc EXCEPT ![c] = "start_sync"]
  /\ UNCHANGED <<engine_vars, store_vars, cop, cjoin, cpaper, now, ticks, ex_calls,
                 last_sync, last_tick, last_call>>

\* start(), lines 35-37.
StartCheck(c) ==
  /\ cpc[c] = "start_check"
  /\ cpc' = [cpc EXCEPT ![c] = IF is_running THEN "idle" ELSE "start_sync"]
  /\ UNCHANGED <<engine_vars, store_vars, cop, cjoin, cpaper, now, ticks, ex_calls,
                 last_sync, last_tick, last_call>>

\* start(), lines 39-40: the sync, then the rebuild of the position map.
StartSync(c) ==
  /\ cpc[c] = "start_sync"
  /\ \E fo \in (IF HasClient THEN OrderFetches ELSE {NoFetch}),
        fp \in (IF HasClient THEN PositionFetches ELSE {NoFetch}) :
       LET synced == safe_state_sync(db_orders, db_positions, fo, fp)
       IN /\ db_orders' = synced.orders
          /\ db_positions' = synced.positions
          /\ positions' = restore_positions_from_storage(synced.orders, synced.positions,
                                                         now)
          /\ last_sync' = [ran |-> HasClient, fo |-> fo, fp |-> fp]
  /\ cpc' = [cpc EXCEPT ![c] = "start_spawn"]
  /\ UNCHANGED <<thread, stop_event, loop_pc, round_robin_index, last_stale_check_ts,
                 config_vars, db_trades, cop, cjoin, cpaper, now, ticks, ex_calls,
                 last_tick, last_call>>

\* start(), lines 42-46.
StartSpawn(c) ==
  /\ cpc[c] = "start_spawn"
  /\ Unborn # {}
  /\ LET t == CHOOSE u \in Unborn : \A v \in Unborn : u <= v
     IN /\ thread' = t
        /\ loop_pc' = [loop_pc EXCEPT ![t] = "top"]
  /\ stop_event' = FALSE
  /\ cpc' = [cpc EXCEPT ![c] = "idle"]
  /\ last_sync' = NoSync
  /\ UNCHANGED <<positions, round_robin_index, last_stale_check_ts, store_vars, cop,
                 cjoin, cpaper, now, ticks, ex_calls, last_tick, last_call>>

StopCall(c) ==
  /\ c = "action_thread"
  /\ cpc[c] = "idle"
  /\ cpc' = [cpc EXCEPT ![c] = "stop_lock"]
  /\ UNCHANGED <<engine_vars, store_vars, cop, cjoin, cpaper, now, ticks, ex_calls,
                 last_sync, last_tick, last_call>>

\* Where the caller goes when stop() returns: back to the GUI, or on in
\* panic_stop(), lines 97-101.
AfterStop(c) ==
  IF cop[c] = "panic" /\ ~cpaper[c] THEN "panic_cancel" ELSE "idle"

\* stop() with the stop event set before the test of line 51.
StopLockSignalsFirst(c) ==
  /\ cpc[c] = "stop_lock"
  /\ stop_event' = TRUE
  /\ IF thread = 0
     THEN /\ cpc' = [cpc EXCEPT ![c] = AfterStop(c)]
          /\ cop' = [cop EXCEPT ![c] = "none"]
          /\ cpaper' = [cpaper EXCEPT ![c] = FALSE]
          /\ UNCHANGED cjoin
     ELSE /\ cjoin' = [cjoin EXCEPT ![c] = thread]
          /\ cpc' = [cpc EXCEPT ![c] = "stop_join"]
          /\ UNCHANGED <<cop, cpaper>>
  /\ UNCHANGED <<thread, loop_pc, positions, round_robin_index, last_stale_check_ts,
                 store_vars, now, ticks, ex_calls, last_sync, last_tick, last_call>>

\* stop(), lines 49-53.
StopLock(c) ==
  /\ cpc[c] = "stop_lock"
  /\ IF thread = 0
     THEN /\ cpc' = [cpc EXCEPT ![c] = AfterStop(c)]
          /\ cop' = [cop EXCEPT ![c] = "none"]
          /\ cpaper' = [cpaper EXCEPT ![c] = FALSE]
          /\ UNCHANGED <<stop_event, cjoin>>
     ELSE /\ cjoin' = [cjoin EXCEPT ![c] = thread]
          /\ stop_event' = TRUE
          /\ cpc' = [cpc EXCEPT ![c] = "stop_join"]
          /\ UNCHANGED <<cop, cpaper>>
  /\ UNCHANGED <<thread, loop_pc, positions, round_robin_index, last_stale_check_ts,
                 store_vars, now, ticks, ex_calls, last_sync, last_tick, last_call>>

\* stop(), lines 55-57: the join returns when the thread has ended, or after
\* its timeout of 5 seconds while the thread is still inside a tick; then
\* _thread is set to None.
StopJoin(c) ==
  /\ cpc[c] = "stop_join"
  /\ ~Alive(cjoin[c]) \/ loop_pc[cjoin[c]] = "iter"
  /\ thread' = 0
  /\ cpc' = [cpc EXCEPT ![c] = AfterStop(c)]
  /\ cop' = [cop EXCEPT ![c] = "none"]
  /\ cjoin' = [cjoin EXCEPT ![c] = 0]
  /\ cpaper' = [cpaper EXCEPT ![c] = FALSE]
  /\ UNCHANGED <<stop_event, loop_pc, positions, round_robin_index, last_stale_check_ts,
                 store_vars, now, ticks, ex_calls, last_sync, last_tick, last_call>>

\* panic_stop(), lines 94-95, called on the GUI thread.
PanicCall(c) ==
  /\ c = "gui_thread"
  /\ cpc[c] = "idle"
  /\ cpaper' = [cpaper EXCEPT ![c] = PaperMode]
  /\ cop' = [cop EXCEPT ![c] = "panic"]
  /\ cpc' = [cpc EXCEPT ![c] = "stop_lock"]
  /\ UNCHANGED <<engine_vars, store_vars, cjoin, now, ticks, ex_calls, last_sync,
                 last_tick, last_call>>

\* The ids of the orders a fetch_open_orders listed.
ListedIds(fetch) == [i \in 1..Len(FetchedList(fetch)) |-> FetchedList(fetch)[i].id]

\* What panic_stop()'s sweep was given and what it did.
PanicRecord(fetch, failing, swept) ==
  [op |-> "panic_stop", listed |-> ListedIds(fetch),
   failing |-> failing, attempted |-> swept.attempted, canceled |-> swept.canceled]

\* panic_stop(), line 101.
PanicCancel(c) ==
  /\ cpc[c] = "panic_cancel"
  /\ \E fo \in (IF HasClient THEN OrderFetches ELSE {NoFetch}) :
       \E failing \in SUBSET (SeqRange(ListedIds(fo)) \ {""}) :
         /\ ex_calls' = ex_calls \cup cancel_all_open_orders(fo, PaperMode, failing).calls
         /\ last_call' = PanicRecord(fo, failing,
                                     cancel_all_open_orders(fo, PaperMode, failing))
  /\ cpc' = [cpc EXCEPT ![c] = "idle"]
  /\ UNCHANGED <<engine_vars, store_vars, cop, cjoin, cpaper, now, ticks, last_sync,
                 last_tick>>

\* A loop whose while of line 106 does not look at the stop event.
LoopTopUnchecked(t) ==
  /\ loop_pc[t] = "top"
  /\ ticks < MaxTicks
  /\ loop_pc' = [loop_pc EXCEPT ![t] = "iter"]
  /\ ticks' = ticks + 1
  /\ UNCHANGED <<thread, stop_event, positions, round_robin_index, last_stale_check_ts,
                 store_vars, caller_vars, now, ex_calls, last_sync, last_tick, last_call>>

\* _run_loop, lines 106-107: the stop check and the interval read, which is
\* outside the try of lines 108-111.  The tick begins with this check.
LoopTop(t) ==
  /\ loop_pc[t] = "top"
  /\ LET interval == SettingInt("check_interval_sec", DefaultInterval, 1)
     IN IF stop_event THEN loop_pc' = [loop_pc EXCEPT ![t] = "exited"]
        ELSE IF interval.raised THEN loop_pc' = [loop_pc EXCEPT ![t] = "crashed"]
        ELSE /\ ticks < MaxTicks
             /\ loop_pc' = [loop_pc EXCEPT ![t] = "iter"]
  /\ ticks' = IF loop_pc'[t] = "iter" THEN ticks + 1 ELSE ticks
  /\ UNCHANGED <<thread, stop_event, positions, round_robin_index, last_stale_check_ts,
                 store_vars, caller_vars, now, ex_calls, last_sync, last_tick, last_call>>

\* The inputs one tick can consume in the current state: an answer for
\* each request the tick makes, and none for those it does not make.
SweepInputs ==
  IF ~HasClient \/ now - last_stale_check_ts < StaleCheckPeriod THEN {NoFetch}
  ELSE OrderFetches

ExitInputsFor(pos) ==
  IF ~HasClient THEN {EmptyMap} ELSE [DOMAIN pos -> ExitInputs]


\* The symbols whose signal is evaluated, given the answers to the exits.
ActiveAfterExits(xis) ==
  IF ~HasClient THEN {}
  ELSE SeqRange(ActivePairs(
         process_open_positions(TickState(positions, db_orders, db_trades, {}),
                                SeqOfSet(SymbolOrder, DOMAIN positions), now,
                                PaperMode, xis).positions))

\* The symbols an entry is attempted for, given the signals and the draw.
SelectedSymbols(selected) == {selected[i].symbol : i \in 1..Len(selected)}

\* The engine and the store after the tick.
TickEffect(done) ==
  /\ positions' = done.st.positions
  /\ db_orders' = done.st.orders
  /\ db_trades' = done.st.trades
  /\ ex_calls' = ex_calls \cup done.st.calls
  /\ round_robin_index' = done.rr
  /\ last_stale_check_ts' = done.last_ts
  /\ now' = now + done.st.elapsed
  /\ last_tick' = [held_at_entry |-> done.st.held_at_entry, raised |-> done.st.raised]
  /\ UNCHANGED last_call

TickOn(inp) ==
  TickEffect(loop_iteration(positions, db_orders, db_trades, round_robin_index,
                            last_stale_check_ts, now, inp))

TickSelected(sw, xis, sigs, draw, symbols) ==
  \E bal \in (IF symbols = {} THEN {0 - 1} ELSE Balances),
     eis \in [symbols -> EntryInputs] :
    TickOn(TickInput(sw, xis, sigs, draw, bal, eis))

TickCandidates(sw, xis, sigs, candidates) ==
  \E draw \in DrawsFor(Len(candidates)) :
    TickSelected(sw, xis, sigs, draw,
                 SelectedSymbols(apply_position_limit(candidates, round_robin_index,
                                                      draw).selected))

TickActive(sw, xis, active) ==
  \E sigs \in [active -> SignalInputs] :
    TickCandidates(sw, xis, sigs, Candidates(SeqOfSet(SymbolOrder, active), sigs))

\* _run_loop, lines 108-111: one tick, with whatever it raises caught.
LoopIteration(t) ==
  /\ loop_pc[t] = "iter"
  /\ \E sw \in SweepInputs, xis \in ExitInputsFor(positions) :
       TickActive(sw, xis, ActiveAfterExits(xis))
  /\ loop_pc' = [loop_pc EXCEPT ![t] = "wait"]
  /\ UNCHANGED <<thread, stop_event, config_vars, db_positions, caller_vars, last_sync,
                 ticks>>

NoTick == [held_at_entry |-> {}, raised |-> FALSE]

\* _run_loop, line 112: the wait returns at once when the stop is set, and
\* after the interval otherwise.
LoopWait(t) ==
  /\ loop_pc[t] = "wait"
  /\ now' = IF stop_event THEN now
            ELSE now + SettingInt("check_interval_sec", DefaultInterval, 1).val
  /\ loop_pc' = [loop_pc EXCEPT ![t] = "top"]
  /\ UNCHANGED <<thread, stop_event, positions, round_robin_index, last_stale_check_ts,
                 store_vars, caller_vars, ticks, ex_calls, last_sync>>
  /\ last_tick' = NoTick
  /\ UNCHANGED last_call

Scenario(s, p, e) == [settings |-> s, pairs |-> p, exchange |-> e]

\* The installations the model starts from.
Scenarios ==
  { Scenario(SettingsDefault, PairsBoth, AccountEmpty),
    Scenario(SettingsDefault, PairsNone, AccountBusy),
    Scenario(SettingsNoKeys, PairsBoth, AccountEmpty),
    Scenario(SettingsInfInterval, PairsBoth, AccountEmpty),
    Scenario(SettingsAll, PairsBoth, AccountEmpty),
    Scenario(SettingsRoundRobin, PairsBoth, AccountEmpty),
    Scenario(SettingsRandom, PairsBoth, AccountEmpty),
    Scenario(SettingsZeroFee, PairsBoth, AccountEmpty),
    Scenario(SettingsLiveAnyFill, PairsOne, AccountEmpty),
    Scenario(SettingsLiveLimit, PairsOne, AccountEmpty),
    Scenario(SettingsLiveAnyFill, PairsNone, AccountOrders) }

\* The engine as TradingEngine.__init__ leaves it, on a given installation.
EngineAtRest(s, p, e) ==
  /\ thread = 0
  /\ stop_event = FALSE
  /\ loop_pc = [t \in ThreadIds |-> "unborn"]
  /\ positions = EmptyMap
  /\ round_robin_index = 0
  /\ last_stale_check_ts = 0
  /\ now = StaleCheckPeriod
  /\ ticks = 0
  /\ settings = s
  /\ pairs = p
  /\ exchange = e
  /\ db_positions = EmptyMap
  /\ db_orders = <<>>
  /\ db_trades = <<>>
  /\ cpc = [c \in Callers |-> "idle"]
  /\ cop = [c \in Callers |-> "none"]
  /\ cjoin = [c \in Callers |-> 0]
  /\ cpaper = [c \in Callers |-> FALSE]
  /\ ex_calls = {}
  /\ last_sync = NoSync
  /\ last_tick = NoTick
  /\ last_call = NoCall

Init == \E sc \in Scenarios : EngineAtRest(sc.settings, sc.pairs, sc.exchange)

Next ==
  \/ \E c \in Callers :
       \/ StartCall(c) \/ StartCheck(c) \/ StartSync(c) \/ StartSpawn(c)
       \/ StopCall(c) \/ StopLock(c) \/ StopJoin(c)
       \/ PanicCall(c) \/ PanicCancel(c)
  \/ \E t \in ThreadIds : LoopTop(t) \/ LoopIteration(t) \/ LoopWait(t)

Spec == Init /\ [][Next]_vars

(***************************************************************************)
(* executor.place_entry on its own: the settings are drawn at the start,   *)
(* and each step is one call with a requested amount and the answers the   *)
(* exchange gives to it.                                                   *)
(***************************************************************************)
RespCanceled == Resp(TRUE, "x2", "canceled", 0, 0)
RespMost == Resp(TRUE, "x2", "canceled", 90, 2)
RespThreshold == Resp(TRUE, "x4", "closed", DefaultMinFillPct, 2)
RespPart == Resp(TRUE, "x2", "canceled", 20, 2)

RetryStrings == <<"0", "1", "2", "3">>

ExecTable(type, retry, fallback, min_fill) ==
  With(With(With(With(LiveTable, "entry_order_type", type), "entry_retry_count", retry),
            "allow_market_fallback", fallback), "min_fill_pct", min_fill)

\* min_fill_pct "" is a row _as_float cannot read: the default applies.
ExecSettings ==
  {Keyed(ExecTable(type, RetryStrings[r + 1], fallback, min_fill)) :
     type \in {"market", "limit", "stop"}, r \in 0..MaxRetry,
     fallback \in {"0", "1"}, min_fill \in {"80", "30", ""}}

\* One attempt of the limit loop: the submission raised; a poll saw the
\* order closed, filled in full or by half; the timeout came and the
\* re-check raised, found nothing filled, most of it filled, or a fifth of
\* it filled; the timeout came, the cancel raised, and the re-check found the
\* order still open with nothing filled, or filled in full.
AttemptKinds ==
  { Attempt(RespFail, RespFail, RespFail),
    Attempt(RespOpen, RespFilled, RespFail),
    Attempt(RespOpen, RespHalf, RespFail),
    Attempt(RespOpen, RespFail, RespFail),
    Attempt(RespOpen, RespFail, RespCanceled),
    Attempt(RespOpen, RespFail, RespMost),
    Attempt(RespOpen, RespFail, RespPart),
    AttemptUncancelled(RespOpen, RespOpen),
    AttemptUncancelled(RespOpen, RespFilled) }

entry_retry_count == Max(0, AsInt(ExecSetting("entry_retry_count"), 0))

ExecScripts ==
  IF ExecSetting("entry_order_type") = "limit"
  THEN [1..(entry_retry_count + 1) -> AttemptKinds]
  ELSE {<<>>}

ExecAmounts == {0 - 1, 0, 10 * QtyScale}
ExecMarketResps == {RespFail, RespFilled, RespHalf, RespThreshold, RespOpen}

EntryRecord(amount, script, market_resp, placed) ==
  [op |-> "place_entry", amount |-> amount, script |-> script,
   market_resp |-> market_resp, placed |-> placed]

\* One call of place_entry, observed on an engine that has made none.
PlaceEntry ==
  /\ last_call = NoCall
  /\ \E amount \in ExecAmounts, script \in ExecScripts, market_resp \in ExecMarketResps :
       last_call' = EntryRecord(amount, script, market_resp,
                                place_entry(amount, FALSE, script, market_resp))
  /\ UNCHANGED <<engine_vars, store_vars, caller_vars, now, ticks, ex_calls, last_sync,
                 last_tick>>

ExecInit == \E s \in ExecSettings : EngineAtRest(s, PairsNone, AccountEmpty)
ExecNext == PlaceEntry
ExecSpec == ExecInit /\ [][ExecNext]_vars

(***************************************************************************)
(* exits.evaluate_exit on its own: one Position, opened at 100 with a      *)
(* take-profit of 10 % and a stop-loss of 5 %, is evaluated tick after     *)
(* tick at the prices the ticker shows.                                    *)
(***************************************************************************)
ScenarioEntry == 100
ScenarioTpPct == 10 * 100
ScenarioSlPct == 5 * 100

ExitTable(enabled, trigger) ==
  With(With(LiveTable, "break_even_enabled", enabled), "break_even_trigger_pct", trigger)

\* Break-even on (the default) or off, its trigger at 0.10 % (the default)
\* or at 5 %.
ExitSettings ==
  {Keyed(ExitTable(enabled, trigger)) : enabled \in {"1", "0"}, trigger \in {"0.10", "5"}}

\* _open_position, lines 352-360, for the scenario's entry.
ScenarioPosition(side, opened_ts) ==
  PositionState("A", side, QtyScale, ScenarioEntry, opened_ts,
                compute_tp_sl(ScenarioEntry, side, ScenarioTpPct, ScenarioSlPct), "", "")

\* Prices below, at and above the targets and the triggers of both sides.
ExitPrices == {89, 90, 95, 99, 100, 101, 105, 110, 111}

\* The seconds between two evaluations.
ExitDelays == {0, DefaultMaxDuration}

ExitRecord(before, last_price, now_ts, ev) ==
  [op |-> "evaluate_exit", before |-> before, last_price |-> last_price,
   now_ts |-> now_ts, decision |-> ev.decision]

\* One evaluation, _process_open_positions line 381.
EvaluateExit ==
  /\ ticks < MaxEvals
  /\ \E last_price \in ExitPrices, delay \in ExitDelays :
       /\ now' = now + delay
       /\ positions' = Put(positions, "A",
                           evaluate_exit(positions["A"], last_price, now + delay).position)
       /\ last_call' = ExitRecord(positions["A"], last_price, now + delay,
                                  evaluate_exit(positions["A"], last_price, now + delay))
  /\ ticks' = ticks + 1
  /\ UNCHANGED <<thread, stop_event, loop_pc, round_robin_index, last_stale_check_ts,
                 store_vars, caller_vars, ex_calls, last_sync, last_tick>>

\* The engine at rest but for the Position it holds.
Holding(s, position) ==
  /\ settings = s
  /\ positions = Put(EmptyMap, position.symbol, position)
  /\ thread = 0
  /\ stop_event = FALSE
  /\ loop_pc = [t \in ThreadIds |-> "unborn"]
  /\ round_robin_index = 0
  /\ last_stale_check_ts = 0
  /\ now = StaleCheckPeriod
  /\ ticks = 0
  /\ pairs = PairsOne
  /\ exchange = AccountEmpty
  /\ db_positions = EmptyMap
  /\ db_orders = <<>>
  /\ db_trades = <<>>
  /\ cpc = [c \in Callers |-> "idle"]
  /\ cop = [c \in Callers |-> "none"]
  /\ cjoin = [c \in Callers |-> 0]
  /\ cpaper = [c \in Callers |-> FALSE]
  /\ ex_calls = {}
  /\ last_sync = NoSync
  /\ last_tick = NoTick
  /\ last_call = NoCall

ExitInit ==
  \E s \in ExitSettings, side \in {"buy", "sell"} :
    Holding(s, ScenarioPosition(side, StaleCheckPeriod))
ExitNext == EvaluateExit
ExitSpec == ExitInit /\ [][ExitNext]_vars

(***************************************************************************)
(* TradingEngine._process_open_positions on its own: the engine holds the  *)
(* scenario's Position and each step is one pass over it, with the ticker  *)
(* and the answers to the close orders drawn from small sets.              *)
(***************************************************************************)
CloseTable(paper, exit_type, enabled) ==
  With(With(With(DefaultTable, "paper_mode", paper), "exit_order_type", exit_type),
       "break_even_enabled", enabled)

CloseSettings ==
  {Keyed(CloseTable(paper, exit_type, enabled)) :
     paper \in {"1", "0"}, exit_type \in {"market", "limit"}, enabled \in {"1", "0"}}

\* The ticker: the fetch raised, no last price, a price below the targets
\* of both sides, a price above them.  A limit close raises, fills, or is
\* accepted and rests; a market close raises or fills.
CloseTickers == {0 - 1, 0, 89, 111}

CloseInputs ==
  IF PaperMode THEN {ExitInput(tk, RespFail, RespFail) : tk \in CloseTickers}
  ELSE {ExitInput(tk, lr, mr) : tk \in CloseTickers,
                                lr \in {RespFail, RespFilled, RespOpen},
                                mr \in {RespFail, RespFilled}}

\* No close_position call was made.
NoClose == [raised |-> FALSE, calls |-> {}, requests |-> <<>>, order |-> [status |-> "none"]]

\* What one pass was given and did: the Position before it, the decision
\* taken, and what close_position returned if it was called.
PassRecord(before, xi, ev, called) ==
  [op |-> "process_open_positions", before |-> before, xi |-> xi,
   decision |-> ev.decision, called |-> called,
   closed |-> IF called
              THEN close_position(ev.position, ev.decision, PaperMode, xi.limit_resp,
                                  xi.market_resp)
              ELSE NoClose]

PassOver(before, xi, now_ts) ==
  PassRecord(before, xi, evaluate_exit(before, LastPrice(before, xi.ticker), now_ts),
             xi.ticker # 0 - 1
               /\ evaluate_exit(before, LastPrice(before, xi.ticker), now_ts).decision.should_close)

ProcessOpenPositions ==
  /\ ticks < MaxEvals
  /\ "A" \in DOMAIN positions
  /\ \E xi \in CloseInputs, delay \in ExitDelays :
       LET st == process_open_positions(TickState(positions, db_orders, db_trades, {}),
                                        <<"A">>, now + delay, PaperMode, "A" :> xi)
       IN /\ now' = now + delay
          /\ positions' = st.positions
          /\ db_orders' = st.orders
          /\ db_trades' = st.trades
          /\ ex_calls' = ex_calls \cup st.calls
          /\ last_call' = PassOver(positions["A"], xi, now + delay)
  /\ ticks' = ticks + 1
  /\ UNCHANGED <<thread, stop_event, loop_pc, round_robin_index, last_stale_check_ts,
                 config_vars, db_positions, caller_vars, last_sync, last_tick>>

CloseInit ==
  \E s \in CloseSettings, side \in {"buy", "sell"} :
    Holding(s, ScenarioPosition(side, StaleCheckPeriod))
CloseNext == ProcessOpenPositions
CloseSpec == CloseInit /\ [][CloseNext]_vars

(***************************************************************************)
(* TradingEngine._apply_position_limit on its own: a list of candidates    *)
(* that stays as it is, the selection settings and the cursor are drawn at *)
(* the start, and each step is the selection of one tick.                  *)
(***************************************************************************)
SelectTable(mode, limit) ==
  With(With(DefaultTable, "selection_mode", mode), "max_concurrent_positions", limit)

\* The limit rows: integers, ALL, a value below 1, a fraction and a word,
\* which int() does not parse.
LimitRows == {"1", "2", "3", "ALL", "0", "0.10", "many"}

SelectSettings ==
  {Keyed(SelectTable(mode, limit)) :
     mode \in {"best_score", "round_robin", "random_top_k"}, limit \in LimitRows}

CandidateNames == <<"c1", "c2", "c3", "c4">>

\* The lists of up to MaxList candidates, in the order they were appended
\* (lines 203-235), each with a score of 1 or 2.
CandidateLists ==
  UNION {{[i \in 1..n |-> [symbol |-> CandidateNames[i], score |-> scores[i]]] :
            scores \in [1..n -> {1, 2}]} : n \in 0..MaxList}

\* The list the ticks select from, the cursor each tick began with and what
\* each tick selected.
SelectRecord(candidates, cursors, selections) ==
  [op |-> "apply_position_limit", candidates |-> candidates, cursors |-> cursors,
   selections |-> selections]

\* _loop_iteration, line 240: the selection of one tick.
ApplyPositionLimit ==
  /\ ticks < MaxList
  /\ \E draw \in DrawsFor(Len(last_call.candidates)) :
       /\ round_robin_index'
            = apply_position_limit(last_call.candidates, round_robin_index, draw).rr
       /\ last_call'
            = SelectRecord(last_call.candidates,
                           Append(last_call.cursors, round_robin_index),
                           Append(last_call.selections,
                                  apply_position_limit(last_call.candidates,
                                                       round_robin_index, draw).selected))
  /\ ticks' = ticks + 1
  /\ UNCHANGED <<thread, stop_event, loop_pc, positions, last_stale_check_ts, now,
                 store_vars, caller_vars, ex_calls, last_sync, last_tick>>

\* The engine at rest, with a cursor left by earlier ticks.
Selecting(s, rr, candidates) ==
  /\ settings = s
  /\ round_robin_index = rr
  /\ last_call = SelectRecord(candidates, <<>>, <<>>)
  /\ positions = EmptyMap
  /\ thread = 0
  /\ stop_event = FALSE
  /\ loop_pc = [t \in ThreadIds |-> "unborn"]
  /\ last_stale_check_ts = 0
  /\ now = StaleCheckPeriod
  /\ ticks = 0
  /\ pairs = PairsNone
  /\ exchange = AccountEmpty
  /\ db_positions = EmptyMap
  /\ db_orders = <<>>
  /\ db_trades = <<>>
  /\ cpc = [c \in Callers |-> "idle"]
  /\ cop = [c \in Callers |-> "none"]
  /\ cjoin = [c \in Callers |-> 0]
  /\ cpaper = [c \in Callers |-> FALSE]
  /\ ex_calls = {}
  /\ last_sync = NoSync
  /\ last_tick = NoTick

SelectInit ==
  \E s \in SelectSettings, rr \in 0..MaxList, candidates \in CandidateLists :
    Selecting(s, rr, candidates)
SelectNext == ApplyPositionLimit
SelectSpec == SelectInit /\ [][SelectNext]_vars

(***************************************************************************)
(* sizing.compute_order_amount on its own: the price, the margin, the      *)
(* leverage and the market metadata are drawn at the start and the step is *)
(* the call.  With these margins, leverages and prices the raw quantity    *)
(* is a whole number of 1/QtyScale.                                        *)
(***************************************************************************)
\* precision.amount: none, 0 digits, 1 digit.
AmountPrecisions == {0 - 1, 0, 1}
\* limits.amount.step: none, 0, 0.5, 1.
AmountSteps == {0 - 1, 0, QtyScale \div 2, QtyScale}
\* limits.amount.min: none, 1, 2.
AmountMins == {0 - 1, QtyScale, 2 * QtyScale}
\* limits.cost.min: none, 5 USDT.
AmountMinCosts == {0 - 1, 5 * 100}
\* contractSize: none, 0.1.
ContractSizes == {0 - 1, QtyScale \div 10}

AmountMarkets ==
  {MarketInfo(p, s, m, c, k) : p \in AmountPrecisions, s \in AmountSteps,
                               m \in AmountMins, c \in AmountMinCosts,
                               k \in ContractSizes}

AmountPrices == {0, 2, 100}
AmountLeverages == {0, 1, 5}
\* 0, 5 and 90 USDT.
AmountMargins == {0, 5 * 100, 90 * 100}

AmountRecord(op, price, margin_usdt, leverage, market, sized) ==
  [op |-> op, price |-> price, margin_usdt |-> margin_usdt, leverage |-> leverage,
   market |-> market, sized |-> sized]

\* sizing.compute_order_amount, lines 25-82.
ComputeOrderAmount ==
  /\ last_call.op = "sizing"
  /\ last_call' = AmountRecord("compute_order_amount", last_call.price,
                               last_call.margin_usdt, last_call.leverage,
                               last_call.market,
                               compute_order_amount(last_call.price,
                                                    last_call.margin_usdt,
                                                    last_call.leverage,
                                                    last_call.market))
  /\ UNCHANGED <<thread, stop_event, loop_pc, positions, round_robin_index,
                 last_stale_check_ts, now, ticks, store_vars, caller_vars, ex_calls,
                 last_sync, last_tick>>

\* The engine at rest, with no position and nothing stored, about to make
\* the call `call`.
Sizing(s, call) ==
  /\ settings = s
  /\ last_call = call
  /\ round_robin_index = 0
  /\ positions = EmptyMap
  /\ thread = 0
  /\ stop_event = FALSE
  /\ loop_pc = [t \in ThreadIds |-> "unborn"]
  /\ last_stale_check_ts = 0
  /\ now = StaleCheckPeriod
  /\ ticks = 0
  /\ pairs = PairsBoth
  /\ exchange = AccountEmpty
  /\ db_positions = EmptyMap
  /\ db_orders = <<>>
  /\ db_trades = <<>>
  /\ cpc = [c \in Callers |-> "idle"]
  /\ cop = [c \in Callers |-> "none"]
  /\ cjoin = [c \in Callers |-> 0]
  /\ cpaper = [c \in Callers |-> FALSE]
  /\ ex_calls = {}
  /\ last_sync = NoSync
  /\ last_tick = NoTick

AmountInit ==
  \E price \in AmountPrices, margin_usdt \in AmountMargins,
     leverage \in AmountLeverages, market \in AmountMarkets :
    Sizing(SettingsDefault,
           AmountRecord("sizing", price, margin_usdt, leverage, market,
                        Sized(FALSE, 0, "", NoDetails)))
AmountNext == ComputeOrderAmount
AmountSpec == AmountInit /\ [][AmountNext]_vars

(***************************************************************************)
(* The sizing of a tick on its own: the sizing settings are drawn at the   *)
(* start; a step is one call of compute_margin_to_use, or lines 198-339 of *)
(* one tick in paper mode with every candidate admitted.                   *)
(***************************************************************************)
SizeTable(mode, reserve, cap, percent) ==
  With(With(With(With(With(DefaultTable, "sizing_mode", mode),
                      "sizing_reserve_usdt", reserve),
                 "max_margin_per_trade_usdt", cap),
            "sizing_percent", percent),
       "max_concurrent_positions", "ALL")

\* The three modes, a reserve of 0, 10 and -5 USDT, no cap and a cap of 5,
\* 200 and -5 USDT, 10 and 200 percent.
SizeSettings ==
  {Keyed(SizeTable(mode, reserve, cap, percent)) :
     mode \in {"percent", "fixed", "full"}, reserve \in {"0", "10", "-5"},
     cap \in {"", "5", "200", "-5"}, percent \in {"10", "200"}}

\* Free balances of 0, 5, 100 and 300 USDT.
SizeBalances == {0, 5 * 100, 100 * 100, 300 * 100}

MarginRecord(balance_free, margin) ==
  [op |-> "compute_margin_to_use", balance_free |-> balance_free, margin |-> margin]

\* sizing.compute_margin_to_use, lines 7-22.
ComputeMarginToUse ==
  /\ last_call = NoCall
  /\ \E balance_free \in SizeBalances :
       last_call' = MarginRecord(balance_free, compute_margin_to_use(balance_free))
  /\ UNCHANGED <<thread, stop_event, loop_pc, positions, round_robin_index,
                 last_stale_check_ts, now, ticks, store_vars, caller_vars, ex_calls,
                 last_sync, last_tick>>

\* The candidates of the tick, those selected, the free balance of line 241
\* and the tick state after lines 245-339.
EntriesRecord(candidates, selected, free_balance, st) ==
  [op |-> "enter_selected", candidates |-> candidates, selected |-> selected,
   free_balance |-> free_balance, positions |-> st.positions, raised |-> st.raised]

EnterInput(sigs, draw, balance, eis) ==
  TickInput([kind |-> "none"], EmptyMap, sigs, draw, balance, eis)

\* _loop_iteration, lines 198-339, with no position open: the candidates of
\* the signals, the selection, the sizing and the entries.
SizeSelected ==
  /\ last_call = NoCall
  /\ \E sigs \in [SeqRange(ActivePairs(positions)) -> SignalInputs],
        balance \in SizeBalances \cup {0 - 1} :
       LET candidates == Candidates(ActivePairs(positions), sigs)
           sel == apply_position_limit(candidates, round_robin_index, <<>>)
           eis == [x \in SelectedSymbols(sel.selected) |->
                     EntryInput(RespFail, <<>>, RespFail, RespFail)]
           done == EnterStage(TickState(positions, db_orders, db_trades, {}),
                              round_robin_index, now, PaperMode,
                              EnterInput(sigs, <<>>, balance, eis), last_stale_check_ts)
       IN /\ positions' = done.st.positions
          /\ db_orders' = done.st.orders
          /\ db_trades' = done.st.trades
          /\ round_robin_index' = done.rr
          /\ last_tick' = [held_at_entry |-> done.st.held_at_entry,
                           raised |-> done.st.raised]
          /\ last_call' = EntriesRecord(candidates, sel.selected,
                                        fetch_free_usdt_balance(balance), done.st)
  /\ UNCHANGED <<thread, stop_event, loop_pc, last_stale_check_ts, now, ticks,
                 config_vars, db_positions, caller_vars, ex_calls, last_sync>>

SizeInit == \E s \in SizeSettings : Sizing(s, NoCall)
SizeNext == ComputeMarginToUse \/ SizeSelected
SizeSpec == SizeInit /\ [][SizeNext]_vars

(***************************************************************************)
(* The stale-order sweep over several ticks of one loop: the TTL setting   *)
(* is drawn at the start; a step is one tick in paper mode with pair A     *)
(* enabled, followed by the time that passes until the next tick begins.   *)
(***************************************************************************)
\* The default TTL of 300 s and a TTL of 45 s.
SweepSettings ==
  {SettingsDefault, Keyed(With(DefaultTable, "stale_order_ttl_sec", "45"))}

\* The open orders of the account: placed 46 s, 45 s and 1 s before the
\* first tick, 330 s before it, one with no timestamp and one with no id.
OrderAged(id, sec) == ExOrder(id, "A", "limit", TRUE, MsTs(sec))
SweepOrders ==
  <<OrderAged("o2", StaleCheckPeriod - 46), OrderAged("o3", StaleCheckPeriod - 45),
    ExOrder("o5", "A", "limit", TRUE, NoTs), OrderNoId,
    OrderAged("o4", StaleCheckPeriod - 1), OrderOld>>

SweepAccount == [orders |-> SweepOrders, positions |-> <<>>]

\* The seconds from the start of one tick to the start of the next: the
\* default interval, and an interval as long as the sweep period.
SweepWaits == {DefaultInterval, StaleCheckPeriod}

\* The exits see no ticker, or a last price of 3, the take-profit of an
\* entry at 2; the pair gives no signal, or one at a last close of 2.
SweepExitInputs == {ExitInput(0 - 1, RespFail, RespFail), ExitInput(3, RespFail, RespFail)}
SweepSignals == {SignalInput("none", 0, 2), SignalInput("signal", 1, 2)}

\* The entry rows of the orders table.
EntryRows(orders) == {i \in 1..Len(orders) : orders[i].kind = "entry"}

\* What one tick's sweep was given and did, and what the rest of the tick
\* did: the number of trades closed and of entries registered, and whether
\* the positions, orders and trades are those that lines 193-339 alone give.
SweepRecord(at, fetch, failing, sweep, raised, closed, entered, rest_ran) ==
  [at |-> at, swept |-> sweep.swept, fetched |-> sweep.fetched,
   listed |-> FetchedList(fetch), failing |-> failing,
   attempted |-> sweep.attempted, canceled |-> sweep.canceled, raised |-> raised,
   closed |-> closed, entered |-> entered, rest_ran |-> rest_ran]

\* A sweep that did nothing.
NoSweep(last_ts) == [last_ts |-> last_ts, raised |-> FALSE, swept |-> FALSE, calls |-> {}]

SweepHistory(sweeps) == [op |-> "sweep_ticks", sweeps |-> sweeps]

\* The ids of the fetched orders.
FetchedIds(fetch) == {FetchedList(fetch)[i].id : i \in 1..Len(FetchedList(fetch))} \ {""}

\* The cancel_order calls that raise: none, that of o2, that of o1.
SweepFailures == {{}, {"o2"}, {"o1"}}

SweepTickOn(inp, failing, wait) ==
  LET done == loop_iteration(positions, db_orders, db_trades, round_robin_index,
                             last_stale_check_ts, now, inp)
      sweep == cleanup_stale_orders(now, last_stale_check_ts, inp.sweep, failing)
      rest == AfterSweep(positions, db_orders, db_trades, round_robin_index, now, inp,
                         NoSweep(last_stale_check_ts))
  IN /\ positions' = done.st.positions
     /\ db_orders' = done.st.orders
     /\ db_trades' = done.st.trades
     /\ ex_calls' = ex_calls \cup done.st.calls
     /\ round_robin_index' = done.rr
     /\ last_stale_check_ts' = done.last_ts
     /\ now' = now + done.st.elapsed + wait
     /\ last_tick' = [held_at_entry |-> done.st.held_at_entry, raised |-> done.st.raised]
     /\ last_call' = SweepHistory(Append(last_call.sweeps,
                       SweepRecord(now, inp.sweep, failing, sweep, done.st.raised,
                                   Len(done.st.trades) - Len(db_trades),
                                   Cardinality(EntryRows(done.st.orders))
                                   - Cardinality(EntryRows(db_orders)),
                                   /\ done.st.positions = rest.st.positions
                                   /\ done.st.orders = rest.st.orders
                                   /\ done.st.trades = rest.st.trades
                                   /\ done.rr = rest.rr)))

\* _run_loop, lines 108-112: one tick and the wait.
SweepTick ==
  /\ ticks < MaxSweepTicks
  /\ \E sw \in SweepInputs, xis \in [DOMAIN positions -> SweepExitInputs],
        wait \in SweepWaits :
       \E failing \in SweepFailures \cap SUBSET FetchedIds(sw),
          sigs \in [ActiveAfterExits(xis) -> SweepSignals] :
         SweepTickOn(TickInput(sw, xis, sigs, <<>>, 0 - 1,
                               [x \in ActiveAfterExits(xis) |->
                                  EntryInput(RespFail, <<>>, RespFail, RespFail)]),
                     failing, wait)
  /\ ticks' = ticks + 1
  /\ UNCHANGED <<thread, stop_event, loop_pc, config_vars, db_positions, caller_vars,
                 last_sync>>

\* The engine at rest at the time of the first tick.
Sweeping(s) ==
  /\ settings = s
  /\ last_call = SweepHistory(<<>>)
  /\ round_robin_index = 0
  /\ positions = EmptyMap
  /\ thread = 0
  /\ stop_event = FALSE
  /\ loop_pc = [t \in ThreadIds |-> "unborn"]
  /\ last_stale_check_ts = 0
  /\ now = StaleCheckPeriod
  /\ ticks = 0
  /\ pairs = PairsOne
  /\ exchange = SweepAccount
  /\ db_positions = EmptyMap
  /\ db_orders = <<>>
  /\ db_trades = <<>>
  /\ cpc = [c \in Callers |-> "idle"]
  /\ cop = [c \in Callers |-> "none"]
  /\ cjoin = [c \in Callers |-> 0]
  /\ cpaper = [c \in Callers |-> FALSE]
  /\ ex_calls = {}
  /\ last_sync = NoSync
  /\ last_tick = NoTick

SweepInit == \E s \in SweepSettings : Sweeping(s)
SweepNext == SweepTick
SweepSpec == SweepInit /\ [][SweepNext]_vars

(***************************************************************************)
(* Properties.                                                             *)
(***************************************************************************)
OpenRowsOf(orders, order_id) ==
  {i \in 1..Len(orders) : IsOpenRow(orders[i]) /\ orders[i].order_id = order_id}

\* The step of start() that runs lines 39-40, taken by caller c.
SyncStepOf(c) == cpc[c] = "start_sync" /\ cpc'[c] = "start_spawn"

\* C1: start() called while the loop is running returns without changing
\* anything: the engine's fields, the position map and the store are as
\* they were and no reconciliation ran; and a loop thread is only ever
\* started while no loop is running, so two start() calls in a row leave
\* one loop.
C1_StartWhileRunningIsNoOp ==
  [][/\ \A c \in Callers :
          (cpc[c] = "start_check" /\ is_running /\ cpc'[c] # "start_check")
          => /\ cpc'[c] = "idle"
             /\ UNCHANGED <<engine_vars, db_positions, db_orders, db_trades, last_sync>>
     /\ \A t \in ThreadIds :
          (loop_pc[t] = "unborn" /\ loop_pc'[t] # "unborn") => ~is_running]_vars

\* start() is at its running check while the loop runs and has ticked.
C1_Witness ==
  \E c \in Callers : cpc[c] = "start_check" /\ is_running /\ ticks > 0

\* One step of loop thread t.
LoopStep(t) == LoopTop(t) \/ LoopIteration(t) \/ LoopWait(t)

\* C2: while the stop event is set (stop() has signalled and no later
\* start() has cleared it) no loop thread begins a tick: from the top of the
\* loop it can only exit, a tick in flight runs to its end, and the wait
\* returns at once; and a running loop thread is never blocked, so that,
\* scheduled, it terminates within three steps.
C2_StopEndsLoop ==
  /\ [][\A t \in ThreadIds :
          stop_event
          => /\ loop_pc[t] # "iter" => loop_pc'[t] # "iter"
             /\ loop_pc[t] = "top" => loop_pc'[t] \in {"top", "exited"}
             /\ loop_pc[t] = "iter" => loop_pc'[t] \in {"iter", "wait"}
             /\ loop_pc[t] = "wait"
                => \/ loop_pc'[t] = "wait"
                   \/ loop_pc'[t] = "top" /\ now' = now]_vars
  /\ [](\A t \in ThreadIds : (stop_event /\ Alive(t)) => ENABLED LoopStep(t))

\* A loop thread that has ticked has ended on the stop event, still set.
C2_Witness ==
  stop_event /\ ticks > 0 /\ \E t \in ThreadIds : loop_pc[t] = "exited"

\* C3: a loop thread ends only because a stop was requested.
C3_LoopEndsOnlyOnStop ==
  \A t \in ThreadIds : loop_pc[t] \in {"unborn", "top", "iter", "wait", "exited"}

\* C4: when max_concurrent_positions is a number N, the position map never
\* holds more than N Positions.
C4_PositionsWithinLimit ==
  get_setting("max_concurrent_positions", "1") # "ALL"
  => Cardinality(DOMAIN positions) <= PositionLimit(0)

C6_PositionsArePositive ==
  \A x \in DOMAIN positions : positions[x].amount > 0 /\ positions[x].entry_price > 0

\* C7: in paper mode on an account that holds no positions of its own, a
\* start() that follows a completed stop() (no loop thread is running, one
\* has ended, no other call is in progress) and whose sync fetched both
\* lists rebuilds a position map with exactly the symbols the map held.
C7_RestartKeepsOpenSymbols ==
  [][\A c \in Callers :
       (/\ SyncStepOf(c)
        /\ PaperMode
        /\ \A d \in Callers \ {c} : cpc[d] = "idle"
        /\ \A t \in ThreadIds : ~Alive(t)
        /\ \E t \in ThreadIds : loop_pc[t] = "exited"
        /\ exchange.positions = <<>>
        /\ last_sync'.fo.ok = "ok" /\ last_sync'.fp.ok = "ok")
       => DOMAIN positions' = DOMAIN positions]_vars

\* C8: after a sync whose two fetches succeeded, there is exactly one open
\* order row per exchange order id and none for another id, and the
\* position rows are the exchange positions of non-zero size.
C8_SyncIsFullReplace ==
  [][\A c \in Callers :
       (/\ SyncStepOf(c)
        /\ last_sync'.ran /\ last_sync'.fo.ok = "ok" /\ last_sync'.fp.ok = "ok")
       => /\ \A id \in SyncedOrderIds(exchange.orders) :
               Cardinality(OpenRowsOf(db_orders', id)) = 1
          /\ \A i \in 1..Len(db_orders') :
               IsOpenRow(db_orders'[i])
               => db_orders'[i].order_id \in SyncedOrderIds(exchange.orders)
          /\ DOMAIN db_positions' = SyncedSymbols(exchange.positions)]_vars

\* C9: a sync whose order fetch failed leaves the open order rows as they
\* were, and one whose position fetch failed (or is unsupported) leaves the
\* position rows as they were.
C9_FailedFetchKeepsRows ==
  [][\A c \in Callers :
       (SyncStepOf(c) /\ last_sync'.ran)
       => /\ last_sync'.fo.ok # "ok"
             => SelectSeq(db_orders', IsOpenRow) = SelectSeq(db_orders, IsOpenRow)
          /\ last_sync'.fp.ok # "ok" => db_positions' = db_positions]_vars

\* C10: the exchange receives no create_order and no cancel_order made
\* while paper_mode is set.
C10_NoOrderCallsInPaperMode ==
  \A call \in ex_calls : ~call.paper


\* The ids, in order, of the listed orders that have one.
IdsToCancel(listed) == SelectSeq(listed, LAMBDA id : id # "")

\* C11: in live mode panic_stop() reaches its cancel sweep only when its
\* stop() has returned with _thread None, and the sweep sends a cancel_order
\* for every order fetch_open_orders listed (each order that has an id),
\* whichever of the cancels raise: a raising cancel is not counted and the
\* remaining orders are still attempted.
C11_PanicCancelsEveryOrder ==
  /\ [][\A c \in Callers :
          (cpc[c] # "panic_cancel" /\ cpc'[c] = "panic_cancel")
            => /\ cpc[c] \in {"stop_lock", "stop_join"}
               /\ ~cpaper[c]
               /\ thread' = 0]_vars
  /\ [](last_call.op = "panic_stop"
          => /\ last_call.attempted = IdsToCancel(last_call.listed)
             /\ last_call.canceled
                  = Cardinality(SeqRange(last_call.attempted) \ last_call.failing))

\* A sweep whose first cancel raised and whose second was still sent.
C11_Witness ==
  /\ last_call.op = "panic_stop"
  /\ Len(last_call.attempted) = 2
  /\ last_call.attempted[1] \in last_call.failing
  /\ last_call.attempted[2] \notin last_call.failing
  /\ last_call.canceled = 1


(***************************************************************************)
(* The entry executor, under ExecSpec.                                     *)
(***************************************************************************)
CountCalls(calls, op, type) ==
  Cardinality({i \in 1..Len(calls) : calls[i].op = op /\ calls[i].type = type})

MinFillPct == AsFloat(ExecSetting("min_fill_pct"), DefaultMinFillPct * 100)
MarketFallback == AsBool(ExecSetting("allow_market_fallback"))
EntryTimeout == Max(1, AsInt(ExecSetting("entry_timeout_sec"), 30))
LimitCall == Call("create_order", "limit", "entry", FALSE)
CancelCall == Call("cancel_order", "limit", "entry", FALSE)
MarketCall == Call("create_order", "market", "entry", FALSE)

\* A place_entry call for a limit entry of a positive amount.
LimitEntryCalled ==
  /\ last_call.op = "place_entry"
  /\ ExecSetting("entry_order_type") = "limit"
  /\ last_call.amount > 0

\* The attempt's order was placed and no poll saw it closed or filled.
NeverClosed(a) == a.submit.ok /\ ~a.polled.ok

\* The re-check after the cancel found a fill that meets min_fill_pct.
RecheckAccepted(a, amount) ==
  a.recheck.ok /\ result_from_order(a.recheck, amount, MinFillPct).success

\* The attempt timed out and left nothing to return.
TimedOut(a, amount) == NeverClosed(a) /\ ~RecheckAccepted(a, amount)

\* The attempt returned no result: its submission raised, or it timed out.
Fruitless(a, amount) == ~a.submit.ok \/ TimedOut(a, amount)

\* r + 1 limit orders one after another, each cancelled, then the market
\* order if the fallback is enabled.
ExhaustedCalls(attempts, fallback) ==
  [i \in 1..(2 * attempts) |-> IF i % 2 = 1 THEN LimitCall ELSE CancelCall]
  \o (IF fallback THEN <<MarketCall>> ELSE <<>>)

RetriesExhausted(placed, amount, market_resp) ==
  /\ placed.calls = ExhaustedCalls(entry_retry_count + 1, MarketFallback)
  /\ MarketFallback => placed.result = place_market(amount, MinFillPct, FALSE, market_resp).result

\* Every place_entry call is bounded: at most r + 1 limit orders, at most one
\* market order, and at most (r + 1) * timeout_sec seconds in the poll loops.
EntryIsBounded ==
  last_call.op = "place_entry"
    => /\ CountCalls(last_call.placed.calls, "create_order", "limit") <= entry_retry_count + 1
       /\ CountCalls(last_call.placed.calls, "create_order", "market") <= 1
       /\ last_call.placed.elapsed <= (entry_retry_count + 1) * EntryTimeout

\* C12 as stated: whenever no poll of any attempt sees the order closed or
\* filled, r + 1 limit orders are placed and cancelled in turn, and then the
\* market order, whose result is returned, if the fallback is enabled.
C12_AsStated ==
  (LimitEntryCalled /\ \A i \in 1..(entry_retry_count + 1) : NeverClosed(last_call.script[i]))
    => RetriesExhausted(last_call.placed, last_call.amount, last_call.market_resp)

\* C12: a limit entry with retry_count = r in which every attempt times out
\* (no poll sees the order closed or filled, and the re-check after the
\* cancel finds no fill that meets min_fill_pct) places exactly r + 1 limit
\* orders one after another, cancelling each, and then, if the market
\* fallback is enabled, exactly one market order whose result it returns;
\* and every place_entry call is bounded in orders and in polling time.
C12_ExhaustedRetriesFallBack ==
  /\ (LimitEntryCalled
        /\ \A i \in 1..(entry_retry_count + 1) : TimedOut(last_call.script[i], last_call.amount))
       => RetriesExhausted(last_call.placed, last_call.amount, last_call.market_resp)
  /\ EntryIsBounded

\* Two attempts timed out one after the other and the market order filled.
C12_Witness ==
  /\ LimitEntryCalled
  /\ entry_retry_count = 1
  /\ MarketFallback
  /\ \A i \in 1..2 : TimedOut(last_call.script[i], last_call.amount)
  /\ last_call.placed.calls = <<LimitCall, CancelCall, LimitCall, CancelCall, MarketCall>>
  /\ last_call.placed.result.success
  /\ last_call.placed.elapsed = 2 * EntryTimeout

\* The attempts of the script whose submission raised.
RaisedAttempts(script) == {i \in 1..Len(script) : ~script[i].submit.ok}

C13_WitnessTimeout ==
  /\ LimitEntryCalled /\ ~MarketFallback
  /\ entry_retry_count = 1
  /\ RaisedAttempts(last_call.script) = {1}
  /\ TimedOut(last_call.script[2], last_call.amount)
  /\ last_call.placed.result.status = "timeout"

\* C14: a market entry of a positive amount is one create_order; when it
\* returns, success is filled / requested * 100 >= min_fill_pct (80 when the
\* setting cannot be read); when it raises, the result is a failure with
\* status error; a non-positive amount or an order type other than market
\* and limit is rejected without any call to the exchange.
C14_MarketEntry ==
  last_call.op = "place_entry"
    => /\ (last_call.amount <= 0 \/ ExecSetting("entry_order_type") \notin {"market", "limit"})
            => /\ last_call.placed.calls = <<>>
               /\ ~last_call.placed.result.success
               /\ last_call.placed.result.status = "rejected"
       /\ (last_call.amount > 0 /\ ExecSetting("entry_order_type") = "market")
            => /\ last_call.placed.calls = <<MarketCall>>
               /\ last_call.placed.elapsed = 0
               /\ IF last_call.market_resp.ok
                  THEN last_call.placed.result.success
                         <=> (last_call.market_resp.fill_pct * 100
                                >= (IF ExecSetting("min_fill_pct") = "" THEN 80 * 100
                                    ELSE NumberStrings[ExecSetting("min_fill_pct")]))
                  ELSE /\ ~last_call.placed.result.success
                       /\ last_call.placed.result.status = "error"

\* A market order filled to exactly the default 80 % is accepted.
C14_Witness ==
  /\ last_call.op = "place_entry"
  /\ ExecSetting("entry_order_type") = "market"
  /\ ExecSetting("min_fill_pct") = ""
  /\ last_call.amount > 0
  /\ last_call.market_resp = RespThreshold
  /\ last_call.placed.result.success


(***************************************************************************)
(* The exit decision, under ExitSpec.                                      *)
(***************************************************************************)
Evaluated == last_call.op = "evaluate_exit"

\* The settings as evaluate_exit reads them, lines 86-90.
BreakEvenEnabled == AsBool(ExecSetting("break_even_enabled"))
TriggerPct == AsFloat(ExecSetting("break_even_trigger_pct"), 10)
OffsetPct == AsFloat(ExecSetting("break_even_offset_pct"), 2)
MaxDuration == AsInt(ExecSetting("max_trade_duration_sec"), DefaultMaxDuration)

\* The price has reached the break-even trigger of the position.
TriggerReached(p, price) ==
  IF p.side = "buy" THEN price * PctScale >= p.entry_price * (PctScale + TriggerPct)
  ELSE price * PctScale <= p.entry_price * (PctScale - TriggerPct)

TpTouched(p, price) ==
  IF p.side = "buy" THEN price * PctScale >= p.tp_price ELSE price * PctScale <= p.tp_price

SlTouched(p, price) ==
  IF p.side = "buy" THEN price * PctScale <= p.sl_price ELSE price * PctScale >= p.sl_price

Expired(p, now_ts) == now_ts - p.opened_ts >= MaxDuration

\* The break-even move is due: enabled, not yet applied, trigger reached.
BreakEvenDue == BreakEvenEnabled /\ ~last_call.before.break_even_moved
                  /\ TriggerReached(last_call.before, last_call.last_price)

\* C15: once an evaluation has moved the stop of a Position to break-even,
\* no later evaluation, at any price, changes its stop-loss price, clears
\* the mark, or returns break_even_moved again.
C15_BreakEvenFiresOnce ==
  [][positions["A"].break_even_moved
       => /\ positions'["A"].sl_price = positions["A"].sl_price
          /\ positions'["A"].break_even_moved
          /\ last_call'.decision.reason # "break_even_moved"]_vars

\* A Position whose stop was moved, evaluated again above the trigger.
C15_Witness ==
  /\ Evaluated
  /\ last_call.before.break_even_moved
  /\ BreakEvenEnabled
  /\ TriggerReached(last_call.before, last_call.last_price)
  /\ positions["A"].sl_price = last_call.before.sl_price
  /\ positions["A"].sl_price # positions["A"].initial_sl_price

\* C16: when break-even is enabled, not yet applied and the trigger price is
\* reached, the decision is break_even_moved with should_close false and the
\* stop-loss becomes entry * (1 +/- offset), also when the price satisfies
\* the take-profit or the maximum duration has elapsed; in every other
\* evaluation the decision is a terminal one or none, and the stop-loss is
\* left as it was.
C16_BreakEvenComesFirst ==
  Evaluated
    => IF BreakEvenDue
       THEN /\ last_call.decision.reason = "break_even_moved"
            /\ ~last_call.decision.should_close
            /\ last_call.decision.break_even_moved
            /\ positions["A"].break_even_moved
            /\ positions["A"].sl_price
                 = (IF positions["A"].side = "buy"
                    THEN positions["A"].entry_price * (PctScale + OffsetPct)
                    ELSE positions["A"].entry_price * (PctScale - OffsetPct))
       ELSE /\ last_call.decision.reason \in {"tp_hit", "sl_hit", "time_stop", ""}
            /\ positions["A"] = last_call.before

\* The break-even move made at a price that is past the take-profit, after
\* the maximum duration.
C16_Witness ==
  /\ Evaluated
  /\ last_call.decision.reason = "break_even_moved"
  /\ TpTouched(last_call.before, last_call.last_price)
  /\ Expired(last_call.before, last_call.now_ts)

\* C17: when the break-even move is not due, the decision is tp_hit if the
\* take-profit is touched, else sl_hit if the stop-loss is touched, else
\* time_stop if the maximum duration has elapsed, else no close; so tp_hit
\* and sl_hit win over an elapsed duration; and the exit price of every
\* close decision is the price evaluated.
C17_TerminalPriority ==
  (Evaluated /\ ~BreakEvenDue)
    => /\ last_call.decision.reason
            = (IF TpTouched(last_call.before, last_call.last_price) THEN "tp_hit"
               ELSE IF SlTouched(last_call.before, last_call.last_price) THEN "sl_hit"
               ELSE IF Expired(last_call.before, last_call.now_ts) THEN "time_stop"
               ELSE "")
       /\ last_call.decision.should_close <=> last_call.decision.reason # ""
       /\ last_call.decision.should_close
            => last_call.decision.exit_price = last_call.last_price

\* The stop-loss touched after the maximum duration: sl_hit.
C17_Witness ==
  /\ Evaluated
  /\ last_call.decision.reason = "sl_hit"
  /\ Expired(last_call.before, last_call.now_ts)
  /\ last_call.decision.exit_price = last_call.last_price

\* The take-profit touched after the maximum duration: tp_hit.
C17_WitnessTp ==
  /\ Evaluated
  /\ last_call.decision.reason = "tp_hit"
  /\ Expired(last_call.before, last_call.now_ts)

\* The scenario's long Position evaluated at 111.
LongAt111 ==
  /\ Evaluated
  /\ last_call.before.side = "buy"
  /\ last_call.before.entry_price = ScenarioEntry
  /\ last_call.last_price = 111

ClosedAtTp ==
  /\ last_call.decision.should_close
  /\ last_call.decision.reason = "tp_hit"
  /\ last_call.decision.exit_price = 111

\* C18 as stated: the evaluation of the tick in which the price is 111
\* closes the long Position with tp_hit at 111.
C18_AsStated == LongAt111 => ClosedAtTp

\* C18: a long Position entered at 100 with tp_pct 10 and sl_pct 5 has its
\* take-profit at 110 and its initial stop-loss at 95; evaluated at 111 it is
\* closed with reason tp_hit and exit price 111 when the break-even move is
\* disabled or has already been made, and is given the break_even_moved
\* decision, without a close, otherwise.
C18_ScenarioTakeProfit ==
  (Evaluated /\ last_call.before.side = "buy" /\ last_call.before.entry_price = ScenarioEntry)
    => /\ last_call.before.tp_price = 110 * PctScale
       /\ last_call.before.initial_sl_price = 95 * PctScale
       /\ last_call.last_price = 111
            => IF ~BreakEvenEnabled \/ last_call.before.break_even_moved
               THEN ClosedAtTp
               ELSE ~last_call.decision.should_close
                    /\ last_call.decision.reason = "break_even_moved"

\* The long Position, its stop already at break-even, closed at 111.
C18_Witness ==
  /\ LongAt111
  /\ BreakEvenEnabled
  /\ last_call.before.break_even_moved
  /\ ClosedAtTp


(***************************************************************************)
(* Closing, under CloseSpec.                                               *)
(***************************************************************************)
Passed == last_call.op = "process_open_positions"

\* C19: a Position leaves the active set only in a pass whose close order
\* came back filled (status closed or filled, for the whole amount); an
\* order that was only accepted, such as a resting reduce-only limit order
\* placed on tp_hit, leaves the Position in the set.
C19_RemovedOnlyWhenFilled ==
  (Passed /\ "A" \notin DOMAIN positions)
    => /\ last_call.called
       /\ ~last_call.closed.raised
       /\ last_call.closed.order.status \in {"closed", "filled"}
       /\ last_call.closed.order.filled = last_call.before.amount

\* The limit close of a tp_hit was accepted and rests unfilled, and the
\* Position is gone with a trade recorded for its whole amount.
C19_RestingCloseRemoves ==
  ~(/\ Passed
    /\ last_call.decision.reason = "tp_hit"
    /\ last_call.closed.requests = <<CloseRequest("limit", last_call.before,
                                                  last_call.decision.exit_price)>>
    /\ last_call.closed.order.status = "open"
    /\ last_call.closed.order.filled = 0
    /\ "A" \notin DOMAIN positions
    /\ Len(db_trades) = 1
    /\ db_trades[1].qty = last_call.before.amount)

\* C20: in paper mode close_position sends nothing and returns a closed
\* order filled for the whole amount at the decision's exit price; in live
\* mode it sends a reduce-only limit order at the decision's price only when
\* exit_order_type is limit and the reason is tp_hit, followed by a
\* reduce-only market order if that submission raised; for every other
\* reason, and for every other exit_order_type, it sends one reduce-only
\* market order and nothing else.
C20_CloseRouting ==
  (Passed /\ last_call.called)
    => IF PaperMode
       THEN /\ last_call.closed.requests = <<>>
            /\ ~last_call.closed.raised
            /\ last_call.closed.order
                 = [status |-> "closed", average |-> last_call.decision.exit_price,
                    filled |-> last_call.before.amount, id |-> "paper-exit"]
       ELSE IF ExecSetting("exit_order_type") = "limit" /\ last_call.decision.reason = "tp_hit"
       THEN last_call.closed.requests
              = <<CloseRequest("limit", last_call.before, last_call.decision.exit_price)>>
                \o (IF last_call.xi.limit_resp.ok THEN <<>>
                    ELSE <<CloseRequest("market", last_call.before, 0)>>)
       ELSE last_call.closed.requests = <<CloseRequest("market", last_call.before, 0)>>

\* The limit close of a tp_hit raised and the market order followed.
C20_Witness ==
  /\ Passed /\ last_call.called
  /\ ~PaperMode
  /\ last_call.decision.reason = "tp_hit"
  /\ Len(last_call.closed.requests) = 2
  /\ last_call.closed.requests[1].type = "limit"
  /\ last_call.closed.requests[2].type = "market"
  /\ last_call.closed.requests[2].reduceOnly

\* With exit_order_type limit, a stop-loss is closed by one market order.
C20_WitnessStop ==
  /\ Passed /\ last_call.called
  /\ ~PaperMode
  /\ ExecSetting("exit_order_type") = "limit"
  /\ last_call.decision.reason = "sl_hit"
  /\ Len(last_call.closed.requests) = 1
  /\ last_call.closed.requests[1].type = "market"


(***************************************************************************)
(* The trades table, under Spec.                                           *)
(***************************************************************************)
\* C21: the PnL of every trade row is (exit - entry) * quantity for a long
\* position and the negation of that for a short one.
C21_PnlFollowsSide ==
  \A i \in 1..Len(db_trades) :
    db_trades[i].pnl
      = (IF db_trades[i].side = "buy"
         THEN (db_trades[i].exit - db_trades[i].entry) * db_trades[i].qty
         ELSE (db_trades[i].entry - db_trades[i].exit) * db_trades[i].qty)

\* Every trade row of a long position, and every trade row of a short one
\* closed at its entry price, has the claimed PnL.
C21_LongPnl ==
  \A i \in 1..Len(db_trades) :
    (db_trades[i].side = "buy" \/ db_trades[i].exit = db_trades[i].entry)
      => db_trades[i].pnl = (db_trades[i].exit - db_trades[i].entry) * db_trades[i].qty


(***************************************************************************)
(* Admission, under SelectSpec.                                            *)
(***************************************************************************)
Selected == last_call.op = "apply_position_limit"

\* The ranked list, its length L and the limit N.
Ranked == SortedByScore(last_call.candidates)
ListLen == Len(last_call.candidates)
Limit == PositionLimit(ListLen)

\* The ticks made so far.
TicksMade == Len(last_call.selections)

\* How often the first k ticks selected the candidate.
TimesSelected(c, k) ==
  Cardinality({tk \in (1..k) \X (1..ListLen) :
                 /\ tk[2] <= Len(last_call.selections[tk[1]])
                 /\ last_call.selections[tk[1]][tk[2]] = c})

\* The ceiling of L / N.
Rounds == (ListLen + Limit - 1) \div Limit

RoundRobinBelowLength ==
  Selected /\ SelectionMode = "round_robin" /\ Limit < ListLen

\* Each tick selects N consecutive entries from its cursor, wrapping, and
\* leaves the cursor advanced by N modulo L.
ConsecutiveFromCursor ==
  \A t \in 1..TicksMade :
    /\ last_call.selections[t]
         = [i \in 1..Limit |-> Ranked[(((last_call.cursors[t] % ListLen) + i - 1) % ListLen) + 1]]
    /\ (IF t < TicksMade THEN last_call.cursors[t + 1] ELSE round_robin_index)
         = ((last_call.cursors[t] % ListLen) + Limit) % ListLen

\* C22 as stated: after ceil(L / N) ticks every candidate has been selected
\* exactly once.
C22_AsStated ==
  (RoundRobinBelowLength /\ TicksMade >= Rounds)
    => \A i \in 1..ListLen : TimesSelected(Ranked[i], Rounds) = 1

\* C22: round robin over an unchanged ranked list of length L with limit
\* N < L, from any cursor: each tick selects N consecutive entries starting
\* at the cursor, wrapping, and advances the cursor by N modulo L; after
\* ceil(L / N) ticks every candidate has been selected at least once, at most
\* twice, and exactly once when N divides L.
C22_RoundRobinCoversList ==
  RoundRobinBelowLength
    => /\ ConsecutiveFromCursor
       /\ TicksMade >= Rounds
            => \A i \in 1..ListLen :
                 /\ TimesSelected(Ranked[i], Rounds) >= 1
                 /\ TimesSelected(Ranked[i], Rounds) <= 2
                 /\ ListLen % Limit = 0 => TimesSelected(Ranked[i], Rounds) = 1

\* Three candidates, limit 2, two ticks: one candidate was selected in both.
C22_Witness ==
  /\ RoundRobinBelowLength
  /\ ListLen = 3 /\ Limit = 2 /\ TicksMade = 2
  /\ \E i \in 1..3 : TimesSelected(Ranked[i], 2) = 2
  /\ \A i \in 1..3 : TimesSelected(Ranked[i], 2) >= 1

\* Three candidates, limit 1, a cursor left at 3: three ticks select each
\* candidate once.
C22_WitnessOnce ==
  /\ RoundRobinBelowLength
  /\ ListLen = 3 /\ Limit = 1 /\ TicksMade = 3
  /\ last_call.cursors[1] = 3
  /\ \A i \in 1..3 : TimesSelected(Ranked[i], 3) = 1


\* The limit N the setting row stands for, given n candidates.
StatedLimit(n) ==
  LET raw == get_setting("max_concurrent_positions", "1")
  IN IF raw = "ALL" THEN n
     ELSE IF raw = "2" THEN 2
     ELSE IF raw = "3" THEN 3
     ELSE 1

\* The candidates of the list that the selection holds.
InSelection(sel) == {sel[i] : i \in 1..Len(sel)}

\* C23: under best_score every tick selects exactly min(N, number of
\* candidates) candidates, none of those left out has a strictly higher
\* score than one selected, and those selected come in descending score;
\* N is the number of candidates for the row ALL and 1 for a row that does
\* not parse or is below 1; and under every selection mode no candidate is
\* selected twice in one tick.
C23_BestScoreTakesTopN ==
  Selected
    => \A t \in 1..TicksMade :
         LET sel == last_call.selections[t]
         IN /\ \A i, j \in 1..Len(sel) : i # j => sel[i] # sel[j]
            /\ InSelection(sel) \subseteq InSelection(last_call.candidates)
            /\ SelectionMode = "best_score"
                 => /\ Len(sel) = Min(StatedLimit(ListLen), ListLen)
                    /\ \A c \in InSelection(last_call.candidates) \ InSelection(sel) :
                         \A d \in InSelection(sel) : c.score <= d.score
                    /\ \A i, j \in 1..Len(sel) : i < j => sel[i].score >= sel[j].score

\* The row "0" with three candidates of which the last scores highest: that
\* one alone is selected.
C23_Witness ==
  /\ Selected /\ SelectionMode = "best_score"
  /\ get_setting("max_concurrent_positions", "1") = "0"
  /\ ListLen = 3 /\ TicksMade = 1
  /\ last_call.candidates[3].score > last_call.candidates[1].score
  /\ last_call.candidates[3].score > last_call.candidates[2].score
  /\ last_call.selections[1] = <<last_call.candidates[3]>>

\* The row ALL selects all three candidates.
C23_WitnessAll ==
  /\ Selected /\ SelectionMode = "best_score"
  /\ get_setting("max_concurrent_positions", "1") = "ALL"
  /\ ListLen = 3 /\ TicksMade = 1
  /\ Len(last_call.selections[1]) = 3


\* The call of compute_order_amount has been made.
AmountCalled == last_call.op = "compute_order_amount"
AmountValid == last_call.price > 0 /\ last_call.leverage > 0
AmountFigures == last_call.sized.details
\* A quantity was returned (None is 0).
AmountReturned == AmountCalled /\ ~last_call.sized.raised /\ last_call.sized.amount # 0
\* quantity * price >= min_cost, the quantity in 1/QtyScale, min_cost in hundredths.
CostCovers(qty, price, min_cost) == qty * price * 100 >= min_cost * QtyScale

\* C24: for margin > 0, leverage > 0, price > 0 and any market metadata, a
\* quantity returned by compute_order_amount is a multiple of the venue step
\* (the step of the limits, or the one derived from the precision), is at
\* least the effective minimum quantity, and quantity * price is at least the
\* venue minimum cost.
C24_ReturnedQuantityFits ==
  (AmountReturned /\ AmountValid /\ last_call.margin_usdt > 0)
  => /\ last_call.market.step > 0 => last_call.sized.amount % last_call.market.step = 0
     /\ AmountFigures.step > 0 => last_call.sized.amount % AmountFigures.step = 0
     /\ AmountFigures.min_qty # 0 - 1 => last_call.sized.amount >= AmountFigures.min_qty
     /\ last_call.market.min_cost # 0 - 1
        => CostCovers(last_call.sized.amount, last_call.price, last_call.market.min_cost)

\* A raw quantity of 12.5 floored to the step 1, above the minimum of 2 and
\* the minimum cost of 5 USDT.
C24_Witness ==
  /\ AmountReturned
  /\ last_call.market.step = QtyScale
  /\ last_call.market.min_qty = 2 * QtyScale
  /\ last_call.market.min_cost = 5 * 100
  /\ AmountFigures.qty_raw > last_call.sized.amount

\* The step comes from the precision alone, and the rounding went up.
C24_WitnessPrecision ==
  /\ AmountReturned
  /\ last_call.market.step = 0 - 1
  /\ AmountFigures.step = QtyScale
  /\ AmountFigures.qty_raw < last_call.sized.amount


\* The rounded quantity of the call's inputs.
RoundedQty ==
  apply_precision(last_call.margin_usdt * last_call.leverage, last_call.price * 100,
                  AmountFigures.precision_amount, AmountFigures.step)
RejectionDue ==
  \/ last_call.margin_usdt <= 0
  \/ RoundedQty <= 0
  \/ AmountFigures.min_qty # 0 - 1 /\ RoundedQty < AmountFigures.min_qty
  \/ last_call.market.min_cost # 0 - 1
     /\ ~CostCovers(RoundedQty, last_call.price, last_call.market.min_cost)
FigureNames ==
  {"qty_raw", "qty_rounded", "min_qty", "min_cost", "step", "precision_amount", "cost"}
\* What a call that returned has returned.
AmountResultOk ==
  /\ last_call.sized.amount = 0 <=> RejectionDue
  /\ last_call.sized.amount = 0 <=> last_call.sized.error # ""
  /\ DOMAIN AmountFigures = FigureNames
  /\ last_call.margin_usdt > 0 => AmountFigures.qty_rounded = RoundedQty
  /\ AmountFigures.min_cost = last_call.market.min_cost
EngineUntouched ==
  UNCHANGED <<thread, stop_event, loop_pc, positions, round_robin_index,
              last_stale_check_ts, now, ticks, store_vars, caller_vars, ex_calls,
              last_sync, last_tick>>

C25_WitnessMinQty ==
  /\ AmountCalled
  /\ last_call.sized.error = "qty_rounded < minQty"
  /\ AmountFigures.qty_rounded > 0


EntriesMade == last_call.op = "enter_selected"
\* The selected candidates whose price or leverage is not positive.
Unsizable == {i \in 1..Len(last_call.selected) :
                last_call.selected[i].price <= 0 \/ last_call.selected[i].leverage <= 0}
\* The selected candidates the sizing returns a quantity for.
Sizable ==
  {i \in 1..Len(last_call.selected) :
     /\ i \notin Unsizable
     /\ compute_order_amount(last_call.selected[i].price,
                             compute_margin_to_use(last_call.free_balance),
                             last_call.selected[i].leverage,
                             last_call.selected[i].market_info).amount # 0}

\* C26: a selected candidate whose price or leverage is not positive is
\* skipped without an exception leaving the tick, and the other selected
\* candidates of the tick are still sized and entered (paper mode: a
\* candidate with a quantity gets a Position).
C26_BadPriceIsSkipped ==
  EntriesMade
  => /\ ~last_call.raised
     /\ \A i \in Sizable :
          last_call.selected[i].symbol \in DOMAIN last_call.positions

\* Two candidates are selected, the first with a last close of 0.
C26_Case ==
  /\ EntriesMade
  /\ Len(last_call.selected) = 2
  /\ Unsizable = {1}

\* Every selected candidate has a positive price and leverage: those with a
\* quantity are entered.
C26_ValidCandidates ==
  (EntriesMade /\ Unsizable = {})
  => /\ ~last_call.raised
     /\ \A i \in Sizable : last_call.selected[i].symbol \in DOMAIN last_call.positions


MarginCalled == last_call.op = "compute_margin_to_use"
Reserve == AsFloat(SizingSetting("sizing_reserve_usdt"), 0)
Usable == Max(0, last_call.balance_free - Reserve)
\* The per-trade cap: the free balance when the setting is empty.
MarginCap == AsFloat(SizingSetting("max_margin_per_trade_usdt"), last_call.balance_free)

\* C27: in every sizing mode, for every free balance, reserve and per-trade
\* cap, the margin m of compute_margin_to_use has 0 <= m <= usable balance
\* = max(0, free - reserve), and m <= cap whenever the cap is not negative.
C27_MarginIsClamped ==
  MarginCalled
  => /\ 0 <= last_call.margin
     /\ last_call.margin <= Usable
     /\ MarginCap >= 0 => last_call.margin <= MarginCap

\* The fixed 20 USDT, with 100 USDT free and 10 in reserve, cut to the cap
\* of 5 USDT.
C27_Witness ==
  /\ MarginCalled
  /\ SizingSetting("sizing_mode") = "fixed"
  /\ last_call.balance_free = 100 * 100
  /\ Usable = 90 * 100
  /\ MarginCap = 5 * 100
  /\ last_call.margin = 5 * 100

\* 200 percent of the usable balance cut to the usable balance.
C27_WitnessUsable ==
  /\ MarginCalled
  /\ SizingSetting("sizing_mode") = "percent"
  /\ SizingSetting("sizing_percent") = "200"
  /\ Usable > 0
  /\ last_call.margin = Usable

\* A negative cap: the margin is 0, above the cap.
C27_WitnessNegativeCap ==
  /\ MarginCalled
  /\ MarginCap < 0
  /\ Usable > 0
  /\ last_call.margin = 0


\* The first of two selected candidates has a last close of 0: the sizing
\* raises, and the second, which has a quantity, gets no Position.
C26_Abandoned ==
  /\ C26_Case
  /\ last_call.raised
  /\ 2 \in Sizable
  /\ last_call.selected[2].symbol \notin DOMAIN last_call.positions


\* Caller c is in stop() at line 49 and no thread handle is set: the engine
\* was never started, or an earlier stop() has run to its end.
StopWhileStopped(c) == cpc[c] = "stop_lock" /\ thread = 0

\* C30: stop() called while no loop is running (the engine never started, or
\* already stopped) returns at line 52: the stop event, the thread handle,
\* the position map, the other engine fields and the store are as they
\* were, and the call ends without an exception.
C30_StopWhileStoppedIsNoOp ==
  [][\A c \in Callers :
       (StopWhileStopped(c) /\ cpc'[c] # "stop_lock")
       => /\ cpc'[c] = AfterStop(c)
          /\ UNCHANGED <<engine_vars, store_vars, ex_calls, last_sync>>]_vars

\* stop() is called again after a stop() that ended a loop which had ticked.
C30_Witness ==
  /\ StopWhileStopped("action_thread")
  /\ stop_event
  /\ \E t \in ThreadIds : loop_pc[t] = "exited"
  /\ ticks > 0

\* stop() is called on an engine that was never started.
C30_WitnessNeverStarted ==
  /\ StopWhileStopped("action_thread")
  /\ ~stop_event
  /\ \A t \in ThreadIds : loop_pc[t] = "unborn"

\* stop() finds the handle of a loop thread that has ended by itself: it
\* goes on to line 53.
C30_EndedByItself ==
  \E c \in Callers :
    /\ cpc[c] = "stop_lock"
    /\ thread # 0
    /\ loop_pc[thread] = "crashed"


SweepTicks == IF last_call.op = "sweep_ticks" THEN last_call.sweeps ELSE <<>>
\* The ticks whose sweep went past the gate of line 488.
SweepStarts == {i \in 1..Len(SweepTicks) : SweepTicks[i].swept}

\* C28: between the starts of any two stale-order sweeps at least 30 seconds
\* pass, whatever the time between the ticks, and whether or not the fetch
\* of the earlier sweep failed.
C28_SweepsThirtySecondsApart ==
  \A i, j \in SweepStarts :
    i < j => SweepTicks[j].at - SweepTicks[i].at >= StaleCheckPeriod

\* A sweep whose fetch failed, a tick 5 seconds later that does not sweep,
\* and a sweep 30 seconds after that.
C28_Witness ==
  /\ Len(SweepTicks) = 3
  /\ SweepStarts = {1, 3}
  /\ ~SweepTicks[1].fetched
  /\ SweepTicks[2].at - SweepTicks[1].at = DefaultInterval
  /\ SweepTicks[3].at - SweepTicks[1].at = DefaultInterval + StaleCheckPeriod


StaleTtl == SettingInt("stale_order_ttl_sec", DefaultStaleTtl, 1).val
\* The fetched orders of tick i that have an id and a timestamp and are
\* older than the TTL, as positions in the fetched list.
Overdue(i) ==
  {k \in 1..Len(SweepTicks[i].listed) :
     /\ SweepTicks[i].listed[k].id # ""
     /\ SweepTicks[i].listed[k].timestamp.kind # "none"
     /\ SweepTicks[i].at - SweepTicks[i].listed[k].timestamp.sec > StaleTtl}
OverdueIds(i) == {SweepTicks[i].listed[k].id : k \in Overdue(i)}
\* The sweep of tick i had a failure: its fetch, or one of its cancels.
SweepFailed(i) ==
  i \in SweepStarts
  /\ (~SweepTicks[i].fetched \/ SweepTicks[i].failing \cap OverdueIds(i) # {})
\* The rest of tick i ran: nothing was raised, and the exits and entries
\* are those the tick makes without its sweep.
RestOfTickRan(i) == ~SweepTicks[i].raised /\ SweepTicks[i].rest_ran

\* C29: a sweep whose fetch succeeded sends one cancel_order for each fetched
\* order with an id and a timestamp that is older than the TTL, and none for
\* any other order; a cancel that fails does not stop the later ones; and
\* after a failed fetch or a failed cancel the exits and the entries of the
\* tick still run.
C29_SweepCancelsTheStale ==
  \A i \in 1..Len(SweepTicks) :
    /\ SeqRange(SweepTicks[i].attempted)
         = (IF i \in SweepStarts /\ SweepTicks[i].fetched THEN OverdueIds(i) ELSE {})
    /\ Len(SweepTicks[i].attempted) = Cardinality(SeqRange(SweepTicks[i].attempted))
    /\ SweepTicks[i].canceled
         = Cardinality(SeqRange(SweepTicks[i].attempted) \ SweepTicks[i].failing)
    /\ SweepFailed(i) => RestOfTickRan(i)

\* TTL 45 s, first tick: the cancel of o2 (46 s old) fails, that of o1 is
\* still sent, o3 (45 s old) is left alone, and the tick enters A.
C29_Witness ==
  /\ Len(SweepTicks) >= 1
  /\ StaleTtl = 45
  /\ SweepTicks[1].attempted = <<"o2", "o1">>
  /\ SweepTicks[1].failing = {"o2"}
  /\ SweepTicks[1].canceled = 1
  /\ SweepTicks[1].entered = 1

\* The fetch of a sweep fails in a tick that closes a position and enters
\* again.
C29_WitnessFetch ==
  \E i \in SweepStarts :
    /\ ~SweepTicks[i].fetched
    /\ SweepTicks[i].closed = 1
    /\ SweepTicks[i].entered = 1


\* C40: the quantity of an accepted order is never above the raw quantity
\* margin * leverage / price, whatever the precision and the step, so its
\* notional is never above margin * leverage.
C40_RoundingIsDownward ==
  (AmountReturned /\ AmountValid)
  => /\ last_call.sized.amount * last_call.price * 100
          <= last_call.margin_usdt * last_call.leverage * QtyScale
     /\ AmountFigures.qty_rounded <= AmountFigures.qty_raw

\* With a step in the limits and no precision the quantity is floored: it is
\* never above the raw quantity.
C40_StepIsDownward ==
  (AmountReturned /\ AmountValid /\ last_call.market.precision = 0 - 1)
  => last_call.sized.amount * last_call.price * 100
       <= last_call.margin_usdt * last_call.leverage * QtyScale

\* 90 USDT at leverage 1 and a price of 100: the raw quantity of 0.9 is
\* returned as 1 under a precision of 0 digits.
C40_RoundedUp ==
  /\ AmountReturned
  /\ last_call.margin_usdt = 90 * 100 /\ last_call.leverage = 1 /\ last_call.price = 100
  /\ last_call.market.precision = 0
  /\ AmountFigures.qty_raw = 9 * (QtyScale \div 10)
  /\ last_call.sized.amount = QtyScale


\* The usable balance of the tick: the free balance of line 241 less the
\* reserve.
TickUsable ==
  Max(0, last_call.free_balance - AsFloat(SizingSetting("sizing_reserve_usdt"), 0))
\* The margin handed to the sizer for each selected candidate (line 246).
TickMargin == compute_margin_to_use(last_call.free_balance)
\* The candidates of the tick that were entered.
EnteredNow == {i \in 1..Len(last_call.selected) :
                 last_call.selected[i].symbol \in DOMAIN last_call.positions}

\* C36: the margins deployed over the entries admitted in one tick add up
\* to no more than the usable balance fetched for that tick, in every sizing
\* mode and under any concurrency limit.
C36_TickMarginsWithinUsable ==
  EntriesMade => Cardinality(EnteredNow) * TickMargin <= TickUsable

\* Mode full, 100 USDT free, no reserve: A and B are both entered with a
\* margin of 100 USDT each.
C36_TwoFullMargins ==
  /\ EntriesMade
  /\ SizingSetting("sizing_mode") = "full"
  /\ Cardinality(EnteredNow) = 2
  /\ TickMargin = TickUsable
  /\ TickUsable = PaperBalance * 100
  /\ \A x \in DOMAIN last_call.positions :
       last_call.positions[x].amount * last_call.positions[x].entry_price
         = PaperBalance * QtyScale

\* A tick that admits one entry deploys no more than the usable balance.
C36_OneEntryWithinUsable ==
  (EntriesMade /\ Cardinality(EnteredNow) <= 1)
  => Cardinality(EnteredNow) * TickMargin <= TickUsable


\* Attempt i of the call was made: every attempt before it returned nothing.
Reached(i) == \A j \in 1..(i - 1) : Fruitless(last_call.script[j], last_call.amount)
\* The attempts made whose order was placed and timed out.
TimeoutsReached ==
  {i \in 1..Len(last_call.script) : Reached(i) /\ NeverClosed(last_call.script[i])}
\* The limit orders placed up to attempt i.
OrdersUpTo(i) == {j \in 1..i : Reached(j) /\ last_call.script[j].submit.ok}

\* C31: each limit order that times out is cancelled once, whether or not
\* the cancel goes through, and looked at once more; when that re-check shows
\* a fill that meets min_fill_pct, place_entry returns success with that
\* order's id, filled quantity and average price, and the cancel is the last
\* call it makes: no further limit order and no market order.
C31_RecheckAfterTimeout ==
  LimitEntryCalled
  => /\ CountCalls(last_call.placed.calls, "cancel_order", "limit")
          = Cardinality(TimeoutsReached)
     /\ \A i \in TimeoutsReached :
          (last_call.script[i].recheck.ok
             /\ last_call.script[i].recheck.fill_pct * 100 >= MinFillPct)
          => /\ last_call.placed.result
                  = EntryResult(TRUE, last_call.script[i].recheck.status,
                                last_call.script[i].recheck.id,
                                FilledOf(last_call.script[i].recheck, last_call.amount),
                                last_call.script[i].recheck.average)
             /\ Len(last_call.placed.calls) = 2 * Cardinality(OrdersUpTo(i))
             /\ \A k \in 1..Len(last_call.placed.calls) :
                  last_call.placed.calls[k]
                    = (IF k % 2 = 1 THEN LimitCall ELSE CancelCall)

\* The second attempt timed out, its cancel raised, and the re-check found
\* the order filled in full: two limit orders, two cancels, success, with
\* retries and the market fallback still available.
C31_Witness ==
  /\ LimitEntryCalled
  /\ entry_retry_count = 2 /\ MarketFallback
  /\ TimeoutsReached = {1, 2}
  /\ ~last_call.script[2].cancel_ok
  /\ last_call.script[2].recheck = RespFilled
  /\ last_call.placed.calls = <<LimitCall, CancelCall, LimitCall, CancelCall>>
  /\ last_call.placed.result.success
  /\ last_call.placed.result.filled = last_call.amount

\* The cancel went through and the re-check found 90 % filled.
C31_WitnessPartial ==
  /\ LimitEntryCalled
  /\ TimeoutsReached = {1}
  /\ last_call.script[1].cancel_ok
  /\ last_call.script[1].recheck = RespMost
  /\ last_call.placed.result.success
  /\ last_call.placed.result.filled * 10 = last_call.amount * 9


\* What attempt i's limit order is known to have filled: what the poll that
\* ended the attempt saw, or what the re-check after the cancel saw (nothing
\* is known when that re-check raised).
KnownFill(i) ==
  IF ~(Reached(i) /\ last_call.script[i].submit.ok) THEN 0
  ELSE IF last_call.script[i].polled.ok
  THEN FilledOf(last_call.script[i].polled, last_call.amount)
  ELSE IF last_call.script[i].recheck.ok
  THEN FilledOf(last_call.script[i].recheck, last_call.amount)
  ELSE 0
\* The market order of the fallback was submitted.
MarketReached ==
  /\ MarketFallback
  /\ \A i \in 1..(entry_retry_count + 1) : Fruitless(last_call.script[i], last_call.amount)
MarketFill ==
  IF MarketReached /\ last_call.market_resp.ok
  THEN FilledOf(last_call.market_resp, last_call.amount) ELSE 0
RECURSIVE SumKnownFill(_)
SumKnownFill(n) == IF n = 0 THEN 0 ELSE KnownFill(n) + SumKnownFill(n - 1)
TotalFilled == SumKnownFill(Len(last_call.script)) + MarketFill
\* Attempt i was followed by another order of the same call.
Superseded(i) ==
  /\ i \in TimeoutsReached
  /\ Fruitless(last_call.script[i], last_call.amount)
  /\ \/ \E j \in (i + 1)..Len(last_call.script) : Reached(j) /\ last_call.script[j].submit.ok
     \/ MarketReached

\* C35: over all the orders one place_entry call submits no more than the
\* requested amount is filled, the EntryResult reports that total, and an
\* order is only followed by another one after it has been cancelled with
\* nothing filled.
C35_FilledWithinRequested ==
  LimitEntryCalled
  => /\ TotalFilled <= last_call.amount
     /\ last_call.placed.result.filled = TotalFilled
     /\ \A i \in 1..Len(last_call.script) :
          Superseded(i) => /\ last_call.script[i].cancel_ok
                           /\ last_call.script[i].recheck.ok
                           /\ last_call.script[i].recheck.status # "open"
                           /\ last_call.script[i].recheck.fill_pct = 0

\* The first order was cancelled with a fifth of it filled, below
\* min_fill_pct; the second was filled in full: 120 % of the amount is
\* filled and the result reports 100 %.
C35_Overfilled ==
  /\ LimitEntryCalled
  /\ entry_retry_count = 1
  /\ last_call.script[1] = Attempt(RespOpen, RespFail, RespPart)
  /\ last_call.script[2] = Attempt(RespOpen, RespFilled, RespFail)
  /\ last_call.placed.result.success
  /\ last_call.placed.result.filled = last_call.amount
  /\ TotalFilled * 10 = last_call.amount * 12

\* The cancel of the first order raised and the order is still open when
\* the second one is placed.
C35_TwoResting ==
  /\ LimitEntryCalled
  /\ last_call.script[1] = AttemptUncancelled(RespOpen, RespOpen)
  /\ Superseded(1)
  /\ CountCalls(last_call.placed.calls, "create_order", "limit") >= 2

\* A limit entry none of whose orders timed out submits at most one order
\* that can fill, and reports what it filled, which is no more than the
\* amount.
C35_NoTimeout ==
  (LimitEntryCalled /\ TimeoutsReached = {})
  => /\ last_call.placed.result.filled = TotalFilled
     /\ TotalFilled <= last_call.amount


(***************************************************************************)
(* TradingEngine._process_open_positions over two open positions: the      *)
(* engine holds a Position on A and one on B, and each step is one pass    *)
(* over the keys of the map, with the ticker and the answers to the close  *)
(* orders of each symbol drawn from small sets.                            *)
(***************************************************************************)
PassSettings ==
  {Keyed(CloseTable(paper, exit_type, enabled)) :
     paper \in {"1", "0"}, exit_type \in {"market", "limit"}, enabled \in {"1", "0"}}

\* What the exchange answers to an exit order of configure_exits: the call
\* raises, or the order is accepted under the id and rests.
ExitResps(id) == {RespFail, Resp(TRUE, id, "open", 0, 0)}

\* _open_position, lines 352-363, for an entry on the symbol: the Position
\* is constructed and passed through configure_exits.
HeldPosition(symbol, side, tp_resp, sl_resp) ==
  configure_exits([ScenarioPosition(side, StaleCheckPeriod) EXCEPT !.symbol = symbol],
                  PaperMode, tp_resp, sl_resp).position

\* An exit order resting on the exchange as configure_exits sent it: the
\* reduce-only limit order at the take-profit price (exits.py:50-57) or the
\* reduce-only stop order at the stop-loss price (exits.py:65-71).
ExitOrder(id, position, type, price) ==
  [id |-> id, symbol |-> position.symbol, type |-> type,
   side |-> IF position.side = "buy" THEN "sell" ELSE "buy", price |-> price]

ExitOrdersPlaced(position) ==
  (IF position.tp_order_id = "" THEN <<>>
   ELSE <<ExitOrder(position.tp_order_id, position, "limit", position.tp_price)>>)
  \o (IF position.sl_order_id = "" THEN <<>>
      ELSE <<ExitOrder(position.sl_order_id, position, "stop", position.sl_price)>>)

\* The exchange's side of a resting exit order: a limit order fills once the
\* price has reached it, a stop order triggers once the price has fallen (a
\* sell stop) or risen (a buy stop) to it.
PriceReached(order, ticker) ==
  /\ ticker > 0
  /\ IF (order.type = "limit") = (order.side = "sell")
     THEN ticker * PctScale >= order.price
     ELSE ticker * PctScale <= order.price

\* The exit orders still resting after a pass: the pass sends no
\* cancel_order (engine.py:365-428, exits.py:123-160), so an order leaves
\* the book only by being filled or triggered at the price of the pass.
RestingAfterPass(orders, xis) ==
  LET Rests(order) ==
        ~(order.symbol \in DOMAIN xis /\ PriceReached(order, xis[order.symbol].ticker))
  IN SelectSeq(orders, Rests)

\* The ticker fetch raised, or the last price is above the targets of both
\* sides; a close order raises or fills (the limit one is sent only when
\* exit_order_type is limit).
PassInputs ==
  {ExitInput(0 - 1, RespFail, RespFail)}
    \cup (IF PaperMode THEN {ExitInput(111, RespFail, RespFail)}
          ELSE IF ExecSetting("exit_order_type") = "limit"
          THEN {ExitInput(111, lr, mr) : lr \in CloseResps, mr \in CloseResps}
          ELSE {ExitInput(111, RespFail, mr) : mr \in CloseResps})

\* What one pass was given: the map, the trades and the orders before it,
\* the time and the answers of the exchange for each symbol.
HeldRecord(before, trades, orders, now_ts, xis) ==
  [op |-> "_process_open_positions", before |-> before, trades |-> Len(trades),
   orders |-> Len(orders), now_ts |-> now_ts, xis |-> xis]

ProcessHeldPositions ==
  /\ ticks < MaxEvals
  /\ positions # EmptyMap
  /\ \E xis \in [DOMAIN positions -> PassInputs] :
       LET st == process_open_positions(TickState(positions, db_orders, db_trades, {}),
                                        SeqOfSet(SymbolOrder, DOMAIN positions),
                                        now + DefaultInterval, PaperMode, xis)
       IN /\ positions' = st.positions
          /\ db_orders' = st.orders
          /\ db_trades' = st.trades
          /\ ex_calls' = ex_calls \cup st.calls
          /\ last_call' = HeldRecord(positions, db_trades, db_orders,
                                     now + DefaultInterval, xis)
          /\ exchange' = [exchange EXCEPT !.orders = RestingAfterPass(@, xis)]
  /\ now' = now + DefaultInterval
  /\ ticks' = ticks + 1
  /\ UNCHANGED <<thread, stop_event, loop_pc, round_robin_index, last_stale_check_ts,
                 settings, pairs, db_positions, caller_vars, last_sync, last_tick>>

PassInit ==
  /\ settings \in PassSettings
  /\ \E side_a \in {"buy", "sell"}, side_b \in {"buy", "sell"},
        tp_resp \in ExitResps("tp"), sl_resp \in ExitResps("sl") :
       positions = ("A" :> HeldPosition("A", side_a, tp_resp, sl_resp))
                     @@ ("B" :> HeldPosition("B", side_b, RespFail, RespFail))
  /\ thread = 0
  /\ stop_event = FALSE
  /\ loop_pc = [t \in ThreadIds |-> "unborn"]
  /\ round_robin_index = 0
  /\ last_stale_check_ts = 0
  /\ now = StaleCheckPeriod
  /\ ticks = 0
  /\ pairs = PairsBoth
  /\ exchange = [orders |-> ExitOrdersPlaced(positions["A"])
                              \o ExitOrdersPlaced(positions["B"]),
                 positions |-> <<>>]
  /\ db_positions = EmptyMap
  /\ db_orders = <<>>
  /\ db_trades = <<>>
  /\ cpc = [c \in Callers |-> "idle"]
  /\ cop = [c \in Callers |-> "none"]
  /\ cjoin = [c \in Callers |-> 0]
  /\ cpaper = [c \in Callers |-> FALSE]
  /\ ex_calls = {}
  /\ last_sync = NoSync
  /\ last_tick = NoTick
  /\ last_call = NoCall
PassNext == ProcessHeldPositions
PassSpec == PassInit /\ [][PassNext]_vars

(***************************************************************************)
(* Failures while the open positions are processed, under PassSpec.        *)
(***************************************************************************)
HeldPass == last_call.op = "_process_open_positions"

\* The ticker fetch of the symbol raised in the pass.
TickerFailed(s) == last_call.xis[s].ticker = 0 - 1

\* The exit decision the pass took for the symbol, from the Position as it
\* was before the pass.
HeldEval(s) ==
  evaluate_exit(last_call.before[s],
                LastPrice(last_call.before[s], last_call.xis[s].ticker), last_call.now_ts)

\* The pass called close_position for the symbol.
CloseCalled(s) == ~TickerFailed(s) /\ HeldEval(s).decision.should_close

\* The last create_order of the close raised: the market order, sent first
\* or after the limit order raised.
CloseRaised(s) ==
  /\ CloseCalled(s)
  /\ ~PaperMode
  /\ ~last_call.xis[s].market_resp.ok
  /\ \/ ~(ExecSetting("exit_order_type") = "limit" /\ HeldEval(s).decision.reason = "tp_hit")
     \/ ~last_call.xis[s].limit_resp.ok

HeldFailed(s) == TickerFailed(s) \/ CloseRaised(s)

\* The rows the pass added that name the symbol.
NewTradesOf(s) ==
  {i \in (last_call.trades + 1)..Len(db_trades) : db_trades[i].symbol = s}
NewExitOrdersOf(s) ==
  {i \in (last_call.orders + 1)..Len(db_orders) :
     db_orders[i].symbol = s /\ db_orders[i].kind = "exit"}

\* The pass went through the symbol: a Position whose close came back is
\* gone with its trade and its exit order recorded, one whose stop moved to
\* break-even carries the move, any other is as it was.
HeldEvaluated(r) ==
  IF CloseCalled(r) /\ ~CloseRaised(r)
  THEN r \notin DOMAIN positions /\ Cardinality(NewTradesOf(r)) = 1
       /\ Cardinality(NewExitOrdersOf(r)) = 1
  ELSE /\ r \in DOMAIN positions
       /\ positions[r] = IF TickerFailed(r) THEN last_call.before[r]
                         ELSE HeldEval(r).position
       /\ NewTradesOf(r) = {}

HeldKept(s) ==
  /\ s \in DOMAIN positions
  /\ positions[s] = last_call.before[s]
  /\ NewTradesOf(s) = {}
  /\ NewExitOrdersOf(s) = {}

\* C32: when the ticker fetch of a position fails or the submission of its
\* close order raises, the Position stays in the active map as it was and
\* no trade row and no exit-order row is recorded for it; the other open
\* positions are still gone through in the same pass; and the next pass goes
\* through the position again (its ticker is asked for, and a close that
\* comes back then removes it).
C32_FailedCloseKeepsPosition ==
  /\ [](HeldPass =>
         \A s \in DOMAIN last_call.before :
           HeldFailed(s) =>
             /\ HeldKept(s)
             /\ \A r \in DOMAIN last_call.before \ {s} : HeldEvaluated(r))
  /\ [][\A s \in DOMAIN positions :
          (HeldPass /\ HeldFailed(s) /\ HeldPass')
            => (s \in DOMAIN last_call.before /\ HeldEvaluated(s))']_vars

\* The close of A raised in a pass that closed B, and A is still held.
C32_Witness ==
  /\ HeldPass
  /\ {"A", "B"} \subseteq DOMAIN last_call.before
  /\ CloseRaised("A")
  /\ HeldKept("A")
  /\ CloseCalled("B") /\ ~CloseRaised("B")
  /\ "B" \notin DOMAIN positions

\* The ticker fetch of A failed in a pass that closed B.
C32_WitnessTicker ==
  /\ HeldPass
  /\ {"A", "B"} \subseteq DOMAIN last_call.before
  /\ TickerFailed("A")
  /\ HeldKept("A")
  /\ "B" \notin DOMAIN positions

\* A short Position, which every priced pass tries to close at this price,
\* is closed by the last pass: the earlier ones had failed on it.
C32_WitnessClosedLater ==
  /\ HeldPass
  /\ ticks = MaxEvals
  /\ "A" \in DOMAIN last_call.before
  /\ last_call.before["A"].side = "sell"
  /\ ~PaperMode
  /\ "A" \notin DOMAIN positions


(***************************************************************************)
(* Loop threads alive together.                                            *)
(***************************************************************************)
AliveLoops == {t \in ThreadIds : Alive(t)}

\* C33: whatever the interleaving of start() and stop(), at most one loop
\* thread is alive at any time; a start() that follows a stop() whose join
\* timed out during a long tick leaves neither the old loop alive beside
\* the new one nor the old loop's stop signal cleared.
C33_OneLoopAlive == Cardinality(AliveLoops) <= 1


(***************************************************************************)
(* Orders after a panic stop.                                              *)
(***************************************************************************)
\* panic_stop() has returned from its cancel sweep in live mode, and the
\* only loop thread ever started is the one it stopped.
PanicReturned ==
  /\ last_call.op = "panic_stop"
  /\ cpc["gui_thread"] = "idle"
  /\ thread = 0
  /\ \A t \in ThreadIds \ {1} : loop_pc[t] = "unborn"

OrdersPlaced == {call \in ex_calls : call.op = "create_order"}

\* C34: once panic_stop() has returned in live mode the engine places no
\* further order on the exchange; a tick that was in flight when the join
\* timed out creates no entry, exit or TP/SL order after the cancel sweep.
C34_NoOrderAfterPanic ==
  [][PanicReturned => OrdersPlaced' \subseteq OrdersPlaced]_vars

\* panic_stop() has returned while the tick it could not wait for is still
\* in flight.
C34_TickInFlight == ~(PanicReturned /\ loop_pc[1] = "iter")

\* The tick in flight has placed an entry after the sweep.
C34_EntryAfterSweep ==
  ~(/\ PanicReturned
    /\ loop_pc[1] = "wait"
    /\ \E call \in OrdersPlaced : call.by = "entry"
    /\ positions # EmptyMap)


(***************************************************************************)
(* The exit orders of a closed Position, under PassSpec.                   *)
(***************************************************************************)
\* The symbols whose Position the last pass closed.
ClosedInPass == DOMAIN last_call.before \ DOMAIN positions

\* The ids of the exit orders configure_exits had placed for the Position.
ExitIdsOf(position) == {position.tp_order_id, position.sl_order_id} \ {""}

\* The exit orders of the Position that still rest on the exchange.
RestingExitsOf(position) ==
  {i \in 1..Len(exchange.orders) :
     /\ exchange.orders[i].symbol = position.symbol
     /\ exchange.orders[i].id \in ExitIdsOf(position)}

\* C37: after the engine has closed a Position in live mode, none of the
\* reduce-only TP limit and native stop-loss orders that configure_exits
\* placed for it is still open on the exchange.
C37_NoExitOrderOutlivesPosition ==
  (HeldPass /\ ~PaperMode)
    => \A s \in ClosedInPass : RestingExitsOf(last_call.before[s]) = {}

\* A long Position closed on tp_hit by a market order leaves its stop order
\* resting.
C37_StopLeftResting ==
  ~(/\ HeldPass /\ ~PaperMode
    /\ "A" \in ClosedInPass
    /\ last_call.before["A"].side = "buy"
    /\ \E i \in RestingExitsOf(last_call.before["A"]) : exchange.orders[i].type = "stop")

\* A Position that had no exit order on the exchange leaves none behind.
C37_NothingPlaced ==
  (HeldPass /\ ~PaperMode)
    => \A s \in ClosedInPass :
         ExitIdsOf(last_call.before[s]) = {} => RestingExitsOf(last_call.before[s]) = {}


(***************************************************************************)
(* The native stop and the break-even move, under PassSpec.                *)
(***************************************************************************)
\* The native stop-loss orders of the Position that rest on the exchange.
NativeStopsOf(position) ==
  {i \in 1..Len(exchange.orders) :
     /\ exchange.orders[i].symbol = position.symbol
     /\ exchange.orders[i].type = "stop"
     /\ exchange.orders[i].id = position.sl_order_id}

\* C38: in live mode the stop price of the native stop-loss order resting
\* for a Position is the Position's current sl_price, also after the
\* break-even move has changed sl_price.
C38_NativeStopFollowsStop ==
  ~PaperMode
    => \A s \in DOMAIN positions :
         \A i \in NativeStopsOf(positions[s]) :
           exchange.orders[i].price = positions[s].sl_price

\* The stop of a long Position has moved to break-even while its native
\* stop order rests at the initial stop price.
C38_StopMovedOrderNot ==
  ~(/\ ~PaperMode
    /\ "A" \in DOMAIN positions
    /\ positions["A"].break_even_moved
    /\ positions["A"].sl_price > positions["A"].initial_sl_price
    /\ \E i \in NativeStopsOf(positions["A"]) :
         exchange.orders[i].price = positions["A"].initial_sl_price)

\* Until the break-even move the native stop order rests at the Position's
\* stop price.
C38_BeforeTheMove ==
  ~PaperMode
    => \A s \in DOMAIN positions :
         ~positions[s].break_even_moved
           => \A i \in NativeStopsOf(positions[s]) :
                exchange.orders[i].price = positions[s].sl_price


(***************************************************************************)
(* The loop for as long as it holds a Position: each step is the pass of   *)
(* one tick over the Position on A followed by the wait of _run_loop, and  *)
(* the loop, which nothing stops, keeps taking steps.  The clock stops     *)
(* counting once every duration the settings can ask for has elapsed.      *)
(***************************************************************************)
HoldClockCap == StaleCheckPeriod + 2 * DefaultMaxDuration

\* The ticker fetch raised, or the price is between the targets or above
\* them; the close orders raise or fill.
HoldInputs ==
  {ExitInput(0 - 1, RespFail, RespFail)}
    \cup (IF PaperMode THEN {ExitInput(tk, RespFail, RespFail) : tk \in {100, 111}}
          ELSE {ExitInput(tk, mr, mr) : tk \in {100, 111}, mr \in CloseResps})

HoldTick ==
  /\ "A" \in DOMAIN positions
  /\ \E xi \in HoldInputs, delay \in ExitDelays :
       LET at == IF now + delay > HoldClockCap THEN HoldClockCap ELSE now + delay
           st == process_open_positions(TickState(positions, db_orders, db_trades, {}),
                                        <<"A">>, at, PaperMode, "A" :> xi)
       IN /\ now' = at
          /\ positions' = st.positions
          /\ db_orders' = st.orders
          /\ db_trades' = st.trades
          /\ ex_calls' = ex_calls \cup st.calls
          /\ last_call' = HeldRecord(positions, db_trades, db_orders, at, "A" :> xi)
  /\ UNCHANGED <<thread, stop_event, loop_pc, round_robin_index, last_stale_check_ts,
                 config_vars, db_positions, caller_vars, ticks, last_sync, last_tick>>

HoldInit ==
  \E s \in CloseSettings, side \in {"buy", "sell"} :
    Holding(s, ScenarioPosition(side, StaleCheckPeriod))
HoldNext == HoldTick
HoldSpec == HoldInit /\ [][HoldNext]_vars /\ WF_vars(HoldTick)

(***************************************************************************)
(* Every Position is closed in the end, under HoldSpec.                    *)
(***************************************************************************)
\* The last pass had the ticker of A and every close order it could send
\* succeed, at a time when max_trade_duration_sec had elapsed since the
\* Position was opened.
GoodElapsedPass ==
  /\ HeldPass
  /\ "A" \in DOMAIN last_call.before
  /\ last_call.xis["A"].ticker # 0 - 1
  /\ PaperMode \/ last_call.xis["A"].market_resp.ok
  /\ last_call.now_ts - last_call.before["A"].opened_ts
       >= AsInt(ExecSetting("max_trade_duration_sec"), DefaultMaxDuration)

\* The last pass moved the stop of A to break-even.
MovedInPass ==
  /\ HeldPass
  /\ "A" \in DOMAIN positions
  /\ ~last_call.before["A"].break_even_moved
  /\ positions["A"].break_even_moved

\* C39: every open Position is closed in the end.  A pass whose ticker
\* fetch and close order succeed once max_trade_duration_sec has elapsed
\* removes the Position, unless that pass moved its stop to break-even,
\* which happens once; and if such passes keep coming while the loop ticks,
\* the Position does leave the map.
C39_PositionIsClosedInTheEnd ==
  /\ [](GoodElapsedPass => ("A" \notin DOMAIN positions \/ MovedInPass))
  /\ [][MovedInPass => ~MovedInPass']_vars
  /\ ([]<>GoodElapsedPass) => <>("A" \notin DOMAIN positions)

\* The Position was closed on time_stop, at a price between its targets.
C39_Witness ==
  /\ GoodElapsedPass
  /\ "A" \notin DOMAIN positions
  /\ Len(db_trades) = 1
  /\ db_trades[1].reason = "time_stop"

\* A pass after the duration had elapsed moved the stop to break-even and
\* left the Position open.
C39_WitnessDelayed == GoodElapsedPass /\ MovedInPass

====
